---- MODULE Spec2Model ----
\* Model of the Logger backend (backend/app): cookie based JWT sessions
\* (routes/auth.py, core/security.py) and the time-entry consistency rules
\* (routes/time_entries.py, crud/time_entries.py).
EXTENDS Integers, Sequences, FiniteSets, TLC

VARIABLES
    users,      \* table "users": sequence of rows, users[i].id = i
    issued,     \* every token the server has signed so far
    expired,    \* the signed tokens whose "exp" has passed
    seq,        \* logical clock: value of iat / uuid4 of the next issuance
    rotated,    \* history: refresh tokens a successful /refresh has consumed
    preRevoke,  \* history: tokens that existed when a /revoke_all of their subject committed
    entries,    \* table "time_entries": set of rows
    nextEntry,  \* uuid4 of the next time entry
    projects,   \* table "projects": set of rows, unique on (user_id, code)
    reqs        \* requests in flight (between their reads and their commit)

vars == <<users, issued, expired, seq, rotated, preRevoke, entries, nextEntry, projects, reqs>>

authVars == <<users, issued, expired, seq, rotated, preRevoke>>

-----------------------------------------------------------------------------
\* Bounds of the model

MaxIssue == 3

MaxEntries == 2

MaxTime == 3

Emails == {"a@x.io", "b@x.io"}

Passwords == {"password-1", "password-2"}

CsrfValues == {"csrf-1", "csrf-2"}

Reqs == {"r1", "r2"}

-----------------------------------------------------------------------------
\* Python values

\* None, and a present value, of an Optional column or cookie
None == <<>>

Some(x) == <<x>>

Val(o) == o[1]

\* str(n) of a non-negative int, as its sequence of decimal digits
RECURSIVE str(_)
str(n) == IF n < 10 THEN <<n>> ELSE str(n \div 10) \o <<n % 10>>

\* int(s) of a decimal string
RECURSIVE int(_)
int(s) == IF Len(s) = 1 THEN s[1] ELSE 10 * int(SubSeq(s, 1, Len(s) - 1)) + s[Len(s)]

-----------------------------------------------------------------------------
\* core/security.py

\* pwd_context.hash / pwd_context.verify: a bcrypt digest of the secret
pwd_hash(secret) == <<"bcrypt", secret>>

pwd_verify(secret, h) == h = pwd_hash(secret)

hash_password(p) == pwd_hash(p)

verify_password(p, h) == pwd_verify(p, h)

create_access_token(sub, token_version) ==
    [sub |-> sub, type |-> "access", jti |-> None, iat |-> seq, ver |-> token_version]

create_refresh_token(sub, token_version) ==
    [sub |-> sub, type |-> "refresh", jti |-> Some(seq), iat |-> seq, ver |-> token_version]

\* A token the server never signed (malformed or forged)
BadToken == [sub |-> 0, type |-> "refresh", jti |-> None, iat |-> 0, ver |-> str(0)]

\* decode_token: jwt.decode accepts a token whose signature verifies and whose
\* exp has not passed
decode_token(token) == token \in issued /\ token \notin expired

\* What a client can put in a cookie: nothing, a signed token, garbage
Cookies == {None} \cup {Some(t) : t \in issued \cup {BadToken}}

\* `not x` of an Optional[str]: None and the empty string
Falsy(x) == x = None \/ Val(x) = ""

\* require_csrf enforced on POST alone
require_csrf_PostOnly(method, header, cookie) ==
    IF method \in {"POST"}
    THEN ~(Falsy(header) \/ Falsy(cookie) \/ header # cookie)
    ELSE TRUE

\* require_csrf: double submit check on the mutating methods; TRUE when it
\* returns, FALSE when it raises the 403
require_csrf(method, header, cookie) ==
    IF method \in {"POST", "PUT", "PATCH", "DELETE"}
    THEN ~(Falsy(header) \/ Falsy(cookie) \/ header # cookie)
    ELSE TRUE

\* The X-CSRF-Token header a client can send, and the csrf_token cookie it can hold
CsrfInputs == {None} \cup {Some(c) : c \in CsrfValues}

CsrfCookies == {None, Some("csrf-1")}

\* The same with the empty header and the empty cookie
CsrfHeaders == CsrfInputs \cup {Some("")}

CsrfCookieValues == CsrfCookies \cup {Some("")}

Methods == {"GET", "HEAD", "OPTIONS", "POST", "PUT", "PATCH", "DELETE"}

-----------------------------------------------------------------------------
\* routes/auth.py

Ok == [status |-> 200, detail |-> "ok"]

HTTPException(status, detail) == [status |-> status, detail |-> detail]

_user_by_email(email) ==
    LET hits == {i \in DOMAIN users : users[i].email = email}
    IN  IF hits = {} THEN None ELSE Some(users[CHOOSE i \in hits : TRUE])

_user_by_id(user_id) ==
    IF user_id \in DOMAIN users THEN Some(users[user_id]) ELSE None

\* The access guard without the test of is_active
_verify_and_get_user_from_access_NoActive(cookie) ==
    IF cookie = None THEN HTTPException(401, "Missing access token")
    ELSE LET token == Val(cookie) IN
      IF ~decode_token(token) THEN HTTPException(401, "Invalid token")
      ELSE IF token.type # "access" THEN HTTPException(401, "Invalid token type")
      ELSE LET user == _user_by_id(token.sub) IN
        IF user = None
        THEN HTTPException(401, "User disabled or not found")
        ELSE IF token.ver # Val(user).token_version
        THEN HTTPException(401, "Token version mismatch (revoked)")
        ELSE Ok

\* The guard of every protected endpoint: Ok (the user is the token's sub), or
\* the 401 it raises
_verify_and_get_user_from_access(cookie) ==
    IF cookie = None THEN HTTPException(401, "Missing access token")
    ELSE LET token == Val(cookie) IN
      IF ~decode_token(token) THEN HTTPException(401, "Invalid token")
      ELSE IF token.type # "access" THEN HTTPException(401, "Invalid token type")
      ELSE LET user == _user_by_id(token.sub) IN
        IF user = None \/ ~Val(user).is_active
        THEN HTTPException(401, "User disabled or not found")
        ELSE IF token.ver # Val(user).token_version
        THEN HTTPException(401, "Token version mismatch (revoked)")
        ELSE Ok

\* refresh_check without the comparison against the stored jti and hash
refresh_check_NoJti(cookie, table) ==
    IF cookie = None THEN HTTPException(401, "Missing refresh token")
    ELSE LET token == Val(cookie) IN
      IF ~decode_token(token) THEN HTTPException(401, "Invalid token")
      ELSE IF token.type # "refresh" THEN HTTPException(401, "Invalid token type")
      ELSE IF token.sub \notin DOMAIN table
              \/ table[token.sub].refresh_token_hash = None
              \/ table[token.sub].refresh_jti = None
      THEN HTTPException(401, "Refresh invalidated")
      ELSE IF token.ver # table[token.sub].token_version
      THEN HTTPException(401, "Refresh revoked by version bump")
      ELSE Ok

\* refresh_check with the rotation comparison made before the version comparison
refresh_check_JtiFirst(cookie, table) ==
    IF cookie = None THEN HTTPException(401, "Missing refresh token")
    ELSE LET token == Val(cookie) IN
      IF ~decode_token(token) THEN HTTPException(401, "Invalid token")
      ELSE IF token.type # "refresh" THEN HTTPException(401, "Invalid token type")
      ELSE IF token.sub \notin DOMAIN table
              \/ table[token.sub].refresh_token_hash = None
              \/ table[token.sub].refresh_jti = None
      THEN HTTPException(401, "Refresh invalidated")
      ELSE IF token.jti # table[token.sub].refresh_jti
              \/ ~pwd_verify(token, Val(table[token.sub].refresh_token_hash))
      THEN HTTPException(401, "Refresh revoked")
      ELSE IF token.ver # table[token.sub].token_version
      THEN HTTPException(401, "Refresh revoked by version bump")
      ELSE Ok

\* The checks of /refresh, made on the users rows `table` that the request read:
\* Ok, or the 401 it raises
refresh_check(cookie, table) ==
    IF cookie = None THEN HTTPException(401, "Missing refresh token")
    ELSE LET token == Val(cookie) IN
      IF ~decode_token(token) THEN HTTPException(401, "Invalid token")
      ELSE IF token.type # "refresh" THEN HTTPException(401, "Invalid token type")
      ELSE IF token.sub \notin DOMAIN table
              \/ table[token.sub].refresh_token_hash = None
              \/ table[token.sub].refresh_jti = None
      THEN HTTPException(401, "Refresh invalidated")
      ELSE IF token.ver # table[token.sub].token_version
      THEN HTTPException(401, "Refresh revoked by version bump")
      ELSE IF token.jti # table[token.sub].refresh_jti
              \/ ~pwd_verify(token, Val(table[token.sub].refresh_token_hash))
      THEN HTTPException(401, "Refresh revoked")
      ELSE Ok

\* issue_tokens that stores the hash of the new refresh token but not its jti
issue_tokens_KeepJti(user) ==
    LET access  == create_access_token(user.id, user.token_version)
        refresh == create_refresh_token(user.id, user.token_version)
    IN  /\ users' = [users EXCEPT ![user.id].refresh_token_hash = Some(pwd_hash(refresh))]
        /\ issued' = issued \cup {access, refresh}
        /\ seq' = seq + 1

\* issue_tokens whose UPDATE writes every column of the row the request holds
issue_tokens_WholeRow(user) ==
    LET access  == create_access_token(user.id, user.token_version)
        refresh == create_refresh_token(user.id, user.token_version)
    IN  /\ users' = [users EXCEPT ![user.id] =
               [user EXCEPT !.refresh_token_hash = Some(pwd_hash(refresh)),
                            !.refresh_jti = refresh.jti]]
        /\ issued' = issued \cup {access, refresh}
        /\ seq' = seq + 1

\* The issuance shared by /login and /refresh: mint the access/refresh pair from
\* the row `user` the request holds, store the refresh hash and jti (the UPDATE
\* writes these two columns only), set the cookies
issue_tokens(user) ==
    LET access  == create_access_token(user.id, user.token_version)
        refresh == create_refresh_token(user.id, user.token_version)
    IN  /\ users' = [users EXCEPT ![user.id].refresh_token_hash = Some(pwd_hash(refresh)),
                                  ![user.id].refresh_jti = refresh.jti]
        /\ issued' = issued \cup {access, refresh}
        /\ seq' = seq + 1

\* The check of /register: Ok, or the 409 it raises
register_check(email) ==
    IF _user_by_email(email) # None
    THEN HTTPException(409, "Email already registered")
    ELSE Ok

\* register that, for an email that exists, stores the new password and issues
\* tokens for the existing user
register_Overwrite(email, password) ==
    /\ seq <= MaxIssue
    /\ LET exists == _user_by_email(email)
           id == IF exists # None THEN Val(exists).id ELSE Len(users) + 1
           user == [id |-> id, email |-> email,
                    password_hash |-> hash_password(password),
                    is_active |-> TRUE, token_version |-> str(0),
                    refresh_token_hash |-> None, refresh_jti |-> None]
           access  == create_access_token(id, user.token_version)
           refresh == create_refresh_token(id, user.token_version)
           row == [user EXCEPT !.refresh_token_hash = Some(pwd_hash(refresh)),
                               !.refresh_jti = refresh.jti]
       IN  /\ users' = IF exists # None THEN [users EXCEPT ![id] = row]
                       ELSE Append(users, row)
           /\ issued' = issued \cup {access, refresh}
           /\ seq' = seq + 1
           /\ UNCHANGED <<expired, rotated, preRevoke>>
    /\ UNCHANGED <<entries, nextEntry, projects, reqs>>

\* POST /register
register(email, password) ==
    /\ seq <= MaxIssue
    /\ IF register_check(email) # Ok
       THEN UNCHANGED authVars  \* 409 Email already registered
       ELSE LET id == Len(users) + 1
                user == [id |-> id, email |-> email,
                         password_hash |-> hash_password(password),
                         is_active |-> TRUE, token_version |-> str(0),
                         refresh_token_hash |-> None, refresh_jti |-> None]
                access  == create_access_token(id, user.token_version)
                refresh == create_refresh_token(id, user.token_version)
            IN  /\ users' = Append(users,
                       [user EXCEPT !.refresh_token_hash = Some(pwd_hash(refresh)),
                                    !.refresh_jti = refresh.jti])
                /\ issued' = issued \cup {access, refresh}
                /\ seq' = seq + 1
                /\ UNCHANGED <<expired, rotated, preRevoke>>
    /\ UNCHANGED <<entries, nextEntry, projects, reqs>>

\* The check of /login: Ok, or the 401 it raises
login_check(email, password) ==
    LET user == _user_by_email(email) IN
    IF user = None \/ ~verify_password(password, Val(user).password_hash)
    THEN HTTPException(401, "Invalid credentials")
    ELSE Ok

\* login that mints the pair and sets the cookies without storing the refresh
\* hash and jti
login_NoStore(email, password) ==
    /\ seq <= MaxIssue
    /\ IF login_check(email, password) # Ok
       THEN UNCHANGED authVars
       ELSE LET user == Val(_user_by_email(email)) IN
            /\ issued' = issued \cup {create_access_token(user.id, user.token_version),
                                      create_refresh_token(user.id, user.token_version)}
            /\ seq' = seq + 1
            /\ UNCHANGED <<users, expired, rotated, preRevoke>>
    /\ UNCHANGED <<entries, nextEntry, projects, reqs>>

\* POST /login
login(email, password) ==
    /\ seq <= MaxIssue
    /\ IF login_check(email, password) # Ok
       THEN UNCHANGED authVars  \* 401 Invalid credentials
       ELSE /\ issue_tokens(Val(_user_by_email(email)))
            /\ UNCHANGED <<expired, rotated, preRevoke>>
    /\ UNCHANGED <<entries, nextEntry, projects, reqs>>

\* refresh that, on a refresh token that is not the stored one, clears the refresh
\* state of its user before it answers 401
refresh_ClearOnReuse(cookie) ==
    /\ seq <= MaxIssue
    /\ IF refresh_check(cookie, users) = HTTPException(401, "Refresh revoked")
       THEN /\ users' = [users EXCEPT ![Val(cookie).sub].refresh_token_hash = None,
                                      ![Val(cookie).sub].refresh_jti = None]
            /\ UNCHANGED <<issued, expired, seq, rotated, preRevoke>>
       ELSE IF refresh_check(cookie, users) # Ok
       THEN UNCHANGED authVars
       ELSE /\ issue_tokens(users[Val(cookie).sub])
            /\ rotated' = rotated \cup {Val(cookie)}
            /\ UNCHANGED <<expired, preRevoke>>
    /\ UNCHANGED <<entries, nextEntry, projects, reqs>>

\* POST /refresh
refresh(cookie) ==
    /\ seq <= MaxIssue
    /\ IF refresh_check(cookie, users) # Ok
       THEN UNCHANGED authVars  \* the 401 of refresh_check
       ELSE /\ issue_tokens(users[Val(cookie).sub])
            /\ rotated' = rotated \cup {Val(cookie)}
            /\ UNCHANGED <<expired, preRevoke>>
    /\ UNCHANGED <<entries, nextEntry, projects, reqs>>

\* revoke_all that clears the refresh state without bumping token_version
revoke_all_NoBump(cookie) ==
    /\ IF _verify_and_get_user_from_access(cookie) # Ok
       THEN UNCHANGED authVars
       ELSE LET user == users[Val(cookie).sub] IN
            /\ users' = [users EXCEPT
                   ![user.id].refresh_token_hash = None,
                   ![user.id].refresh_jti = None]
            /\ preRevoke' = preRevoke \cup {t \in issued : t.sub = user.id}
            /\ UNCHANGED <<issued, expired, seq, rotated>>
    /\ UNCHANGED <<entries, nextEntry, projects, reqs>>

\* POST /revoke_all
revoke_all(cookie) ==
    /\ IF _verify_and_get_user_from_access(cookie) # Ok
       THEN UNCHANGED authVars  \* the 401 of the guard
       ELSE LET user == users[Val(cookie).sub] IN
            /\ users' = [users EXCEPT
                   ![user.id].token_version = str(int(user.token_version) + 1),
                   ![user.id].refresh_token_hash = None,
                   ![user.id].refresh_jti = None]
            /\ preRevoke' = preRevoke \cup {t \in issued : t.sub = user.id}
            /\ UNCHANGED <<issued, expired, seq, rotated>>
    /\ UNCHANGED <<entries, nextEntry, projects, reqs>>

\* logout that clears the stored hash and leaves the jti
logout_HashOnly(cookie, header, csrf) ==
    /\ IF ~require_csrf("POST", header, csrf)
       THEN UNCHANGED authVars
       ELSE /\ IF _verify_and_get_user_from_access(cookie) = Ok
               THEN users' = [users EXCEPT ![Val(cookie).sub].refresh_token_hash = None]
               ELSE UNCHANGED users
            /\ UNCHANGED <<issued, expired, seq, rotated, preRevoke>>
    /\ UNCHANGED <<entries, nextEntry, projects, reqs>>

\* logout that bumps token_version as /revoke_all does
logout_BumpVersion(cookie, header, csrf) ==
    /\ IF ~require_csrf("POST", header, csrf)
       THEN UNCHANGED authVars
       ELSE /\ IF _verify_and_get_user_from_access(cookie) = Ok
               THEN users' = [users EXCEPT
                        ![Val(cookie).sub].token_version = str(int(@) + 1),
                        ![Val(cookie).sub].refresh_token_hash = None,
                        ![Val(cookie).sub].refresh_jti = None]
               ELSE UNCHANGED users
            /\ UNCHANGED <<issued, expired, seq, rotated, preRevoke>>
    /\ UNCHANGED <<entries, nextEntry, projects, reqs>>

\* logout that clears the refresh state of the subject of any access token the
\* server once signed, expired or revoked ones included
logout_AnySubject(cookie, header, csrf) ==
    /\ IF ~require_csrf("POST", header, csrf)
       THEN UNCHANGED authVars
       ELSE /\ IF cookie # None /\ Val(cookie) \in issued /\ Val(cookie).type = "access"
               THEN users' = [users EXCEPT
                        ![Val(cookie).sub].refresh_token_hash = None,
                        ![Val(cookie).sub].refresh_jti = None]
               ELSE UNCHANGED users
            /\ UNCHANGED <<issued, expired, seq, rotated, preRevoke>>
    /\ UNCHANGED <<entries, nextEntry, projects, reqs>>

\* POST /logout
logout(cookie, header, csrf) ==
    /\ IF ~require_csrf("POST", header, csrf)
       THEN UNCHANGED authVars  \* 403 CSRF validation failed
       ELSE /\ IF _verify_and_get_user_from_access(cookie) = Ok
               THEN users' = [users EXCEPT
                        ![Val(cookie).sub].refresh_token_hash = None,
                        ![Val(cookie).sub].refresh_jti = None]
               ELSE UNCHANGED users
            /\ UNCHANGED <<issued, expired, seq, rotated, preRevoke>>
    /\ UNCHANGED <<entries, nextEntry, projects, reqs>>

\* GET /me: the guard alone, no write
me(cookie) ==
    /\ _verify_and_get_user_from_access(cookie) \in {Ok} \cup
           {HTTPException(401, d) : d \in {"Missing access token", "Invalid token",
               "Invalid token type", "User disabled or not found",
               "Token version mismatch (revoked)"}}
    /\ UNCHANGED vars

\* The is_active column: no route writes it; an operator's UPDATE on the users
\* table sets it
set_is_active(user_id, flag) ==
    /\ user_id \in DOMAIN users
    /\ users[user_id].is_active # flag
    /\ users' = [users EXCEPT ![user_id].is_active = flag]
    /\ UNCHANGED <<issued, expired, seq, rotated, preRevoke, entries, nextEntry, projects, reqs>>

\* Time passes: the oldest live token of one kind reaches its exp. A refresh
\* token lives REFRESH_TOKEN_DAYS (14 days) and an access token ACCESS_TOKEN_MIN
\* (10 minutes), so a refresh token outlives every access token minted no later
\* than it.
Expire(t) ==
    /\ t \in issued \ expired
    /\ \A o \in issued : (o.type = t.type /\ o.iat < t.iat) => o \in expired
    /\ t.type = "refresh" =>
           \A o \in issued : (o.type = "access" /\ o.iat <= t.iat) => o \in expired
    /\ expired' = expired \cup {t}
    /\ UNCHANGED <<users, issued, seq, rotated, preRevoke, entries, nextEntry, projects, reqs>>

-----------------------------------------------------------------------------
\* crud/time_entries.py. A timestamp is a whole number of seconds; a nullable
\* timestamp is None or Some(t). `table` is the committed time_entries rows a
\* query reads.

Times == 0 .. MaxTime

OptTimes == {None} \cup {Some(t) : t \in Times}

Max(a, b) == IF a >= b THEN a ELSE b

Return(v) == [raises |-> "", value |-> v]

Raise(e) == [raises |-> e, value |-> 0]

\* datetime - None, None - datetime and datetime <= None raise TypeError
TypeError == Raise("TypeError")

InternalServerError == HTTPException(500, "Internal Server Error")

get_entry(table, entry_id) ==
    LET hits == {e \in table : e.id = entry_id}
    IN  IF hits = {} THEN None ELSE Some(CHOOSE e \in hits : TRUE)

\* _compute_seconds without max(0, ...)
_compute_seconds_Signed(start_utc, end_utc) ==
    IF start_utc = None \/ end_utc = None
    THEN [raises |-> "TypeError", value |-> 0]
    ELSE [raises |-> "", value |-> Val(end_utc) - Val(start_utc)]

_compute_seconds(start_utc, end_utc) ==
    IF start_utc = None \/ end_utc = None
    THEN TypeError
    ELSE Return(Max(0, Val(end_utc) - Val(start_utc)))

\* A comparison of two columns or parameters in a WHERE clause: not true of NULL
SqlLt(a, b) == a # None /\ b # None /\ Val(a) < Val(b)

\* has_overlap with the second comparison made against the new start
has_overlap_StartOnly(table, user_id, start_utc, end_utc, exclude_id) ==
    \E e \in table :
        /\ e.user_id = user_id
        /\ SqlLt(start_utc, e.end_utc) /\ SqlLt(e.start_utc, start_utc)
        /\ exclude_id # None => e.id # Val(exclude_id)

\* has_overlap on closed intervals: a shared endpoint counts as an overlap
has_overlap_Closed(table, user_id, start_utc, end_utc, exclude_id) ==
    \E e \in table :
        /\ e.user_id = user_id
        /\ e.end_utc # None /\ Val(start_utc) <= Val(e.end_utc)
        /\ Val(e.start_utc) <= Val(end_utc)
        /\ exclude_id # None => e.id # Val(exclude_id)

has_overlap(table, user_id, start_utc, end_utc, exclude_id) ==
    \E e \in table :
        /\ e.user_id = user_id
        /\ SqlLt(start_utc, e.end_utc) /\ SqlLt(e.start_utc, end_utc)
        /\ exclude_id # None => e.id # Val(exclude_id)

\* Imported by routes/time_entries.py, not defined in crud/time_entries.py:
\* another entry of the user whose end is null, or None
get_running_entry(table, user_id, exclude_id) ==
    LET hits == {e \in table : /\ e.user_id = user_id
                               /\ e.end_utc = None
                               /\ exclude_id # None => e.id # Val(exclude_id)}
    IN  IF hits = {} THEN None ELSE Some(CHOOSE e \in hits : TRUE)

\* create_entry that leaves end_utc out of the row it builds
create_entry_NoEnd(payload) ==
    LET seconds == _compute_seconds(payload.start_utc, payload.end_utc)
    IN  IF seconds.raises # "" THEN seconds
        ELSE Return([id |-> nextEntry, user_id |-> payload.user_id,
                     start_utc |-> payload.start_utc, end_utc |-> None,
                     seconds |-> seconds.value])

\* create_entry: the row it inserts, or the exception that ends the request
create_entry(payload) ==
    LET seconds == _compute_seconds(payload.start_utc, payload.end_utc)
    IN  IF seconds.raises # "" THEN seconds
        ELSE Return([id |-> nextEntry, user_id |-> payload.user_id,
                     start_utc |-> payload.start_utc, end_utc |-> payload.end_utc,
                     seconds |-> seconds.value])

\* payload.dict(exclude_unset=True): the fields the PATCH body carries
Get(data, k, default) == IF k \in DOMAIN data THEN data[k] ELSE default

\* update_entry: the row as it is committed, or the exception
\* update_entry that sets the fields of the patch and leaves seconds as stored
update_entry_NoRecompute(entry, data) ==
    Return([entry EXCEPT !.start_utc = Get(data, "start_utc", @),
                         !.end_utc = Get(data, "end_utc", @)])

update_entry(entry, data) ==
    LET set == [entry EXCEPT !.start_utc = Get(data, "start_utc", @),
                             !.end_utc = Get(data, "end_utc", @)]
    IN  IF "start_utc" \in DOMAIN data \/ "end_utc" \in DOMAIN data
        THEN LET seconds == _compute_seconds(set.start_utc, set.end_utc)
             IN  IF seconds.raises # "" THEN seconds
                 ELSE Return([set EXCEPT !.seconds = seconds.value])
        ELSE Return(set)

-----------------------------------------------------------------------------
\* crud/projects.py. A project row is [user_id, code, name]; `table` is the
\* committed projects rows.

\* The project codes a client sends, one of them with surrounding blanks
Codes == {"PJ-1", " PJ-1 "}

Names == {None, Some("name-1")}

\* _norm_code: str.strip()
_norm_code(code) == IF code = " PJ-1 " THEN "PJ-1" ELSE code

get_by_code(table, user_id, code) ==
    LET hits == {q \in table : q.user_id = user_id /\ q.code = _norm_code(code)}
    IN  IF hits = {} THEN None ELSE Some(CHOOSE q \in hits : TRUE)

\* upsert_by_code: the projects table after it
upsert_by_code(table, user_id, payload) ==
    LET proj == get_by_code(table, user_id, payload.code) IN
    IF proj # None
    THEN IF payload.name # None /\ Val(proj).name # payload.name
         THEN (table \ {Val(proj)}) \cup {[Val(proj) EXCEPT !.name = payload.name]}
         ELSE table
    ELSE table \cup {[user_id |-> user_id, code |-> _norm_code(payload.code),
                      name |-> payload.name]}

\* update_project: the projects table after it
update_project(table, proj, data) ==
    (table \ {proj}) \cup {[proj EXCEPT !.name = Get(data, "name", @)]}

\* ProjectCreate(code=payload2.project_code) of the entry bodies of the model
ProjectOfEntry == [code |-> "PJ-1", name |-> None]

-----------------------------------------------------------------------------
\* routes/time_entries.py

\* The request bodies
CreatePayloads == [start_utc : {Some(t) : t \in Times}, end_utc : OptTimes]

UpdatePayloads == UNION {[D -> OptTimes] : D \in SUBSET {"start_utc", "end_utc"}}

\* The PATCH bodies that also carry a project_code
UpdatePayloadsProject ==
    {d @@ q : d \in UpdatePayloads, q \in {<<>>, [project_code |-> Some("PJ-1")]}}

\* The POST bodies, without a user_id or with the id of some user as user_id
CreatePayloadsOwner ==
    CreatePayloads \cup {[user_id |-> u] @@ p : p \in CreatePayloads, u \in {1, 2}}

\* payload2 that keeps the user_id of the body when the body carries one
payload2_KeepClient(payload, user_id) == payload @@ [user_id |-> user_id]

\* api_create_entry, line 89: the body with user_id set to the authenticated
\* user's id, whatever the body carried
payload2(payload, user_id) == [user_id |-> user_id] @@ payload

Created == [status |-> 201, detail |-> "ok"]

NoContent == [status |-> 204, detail |-> "ok"]

\* create_validate without the comparison of end_utc against start_utc
create_validate_NoInterval(table, user_id, payload) ==
    IF payload.end_utc = None /\ get_running_entry(table, user_id, None) # None
    THEN HTTPException(409, "A timer is already running")
    ELSE IF payload.end_utc # None
            /\ has_overlap(table, user_id, payload.start_utc, payload.end_utc, None)
    THEN HTTPException(409, "Overlapping time entry for user")
    ELSE Ok

\* create_validate without the query for a running entry
create_validate_NoRunning(table, user_id, payload) ==
    IF payload.end_utc # None /\ Val(payload.end_utc) <= Val(payload.start_utc)
    THEN HTTPException(400, "end_utc must be greater than start_utc")
    ELSE IF payload.end_utc # None
            /\ has_overlap(table, user_id, payload.start_utc, payload.end_utc, None)
    THEN HTTPException(409, "Overlapping time entry for user")
    ELSE Ok

\* api_create_entry, lines 91-104: the validation of the body against `table`
create_validate(table, user_id, payload) ==
    IF payload.end_utc # None /\ Val(payload.end_utc) <= Val(payload.start_utc)
    THEN HTTPException(400, "end_utc must be greater than start_utc")
    ELSE IF payload.end_utc = None /\ get_running_entry(table, user_id, None) # None
    THEN HTTPException(409, "A timer is already running")
    ELSE IF payload.end_utc # None
            /\ has_overlap(table, user_id, payload.start_utc, payload.end_utc, None)
    THEN HTTPException(409, "Overlapping time entry for user")
    ELSE Ok

\* api_create_entry before it reads the body: the access guard and the CSRF guard
create_access(cookie, header, csrf) ==
    LET auth == _verify_and_get_user_from_access(cookie)
    IN  IF auth # Ok THEN auth
        ELSE IF ~require_csrf("POST", header, csrf)
        THEN HTTPException(403, "CSRF validation failed")
        ELSE Ok

\* api_create_entry up to the call of crud create_entry: Ok, or the error raised
create_begin(table, cookie, header, csrf, payload) ==
    LET access == create_access(cookie, header, csrf)
    IN  IF access # Ok THEN access
        ELSE create_validate(table, Val(cookie).sub, payload)

\* The response of POST /api/time-entries/ when no other request intervenes
create_response(cookie, header, csrf, payload) ==
    LET begin == create_begin(entries, cookie, header, csrf, payload)
    IN  IF begin # Ok THEN begin
        ELSE IF create_entry(payload2(payload, Val(cookie).sub)).raises # ""
        THEN InternalServerError
        ELSE Created

\* POST /api/time-entries/ with body `payload`: the guards and the validation,
\* the best-effort upsert of the project (its own commit), then crud create_entry
api_create_entry(cookie, header, csrf, payload) ==
    /\ nextEntry <= MaxEntries
    /\ IF create_begin(entries, cookie, header, csrf, payload) # Ok
       THEN UNCHANGED <<entries, nextEntry, projects>>
       ELSE LET user_id == Val(cookie).sub
                made == create_entry(payload2(payload, user_id))
            IN  /\ projects' = upsert_by_code(projects, user_id, ProjectOfEntry)
                /\ IF made.raises # ""
                   THEN UNCHANGED <<entries, nextEntry>>
                   ELSE /\ entries' = entries \cup {made.value}
                        /\ nextEntry' = nextEntry + 1
    /\ UNCHANGED <<authVars, reqs>>

\* update_validate whose two queries do not exclude the entry's own id
update_validate_NoExclude(table, entry, data) ==
    LET new_start == Get(data, "start_utc", entry.start_utc)
        new_end   == Get(data, "end_utc", entry.end_utc)
    IN  IF new_end # None /\ new_start = None
        THEN InternalServerError
        ELSE IF new_end # None /\ Val(new_end) <= Val(new_start)
        THEN HTTPException(400, "end_utc must be greater than start_utc")
        ELSE IF new_end = None /\ get_running_entry(table, entry.user_id, None) # None
        THEN HTTPException(409, "A timer is already running")
        ELSE IF new_end # None
                /\ has_overlap(table, entry.user_id, new_start, new_end, None)
        THEN HTTPException(409, "Overlapping time entry for user")
        ELSE Ok

\* api_update_entry, lines 151-176: the merge of the patch and its validation
update_validate(table, entry, data) ==
    LET new_start == Get(data, "start_utc", entry.start_utc)
        new_end   == Get(data, "end_utc", entry.end_utc)
    IN  IF new_end # None /\ new_start = None
        THEN InternalServerError
        ELSE IF new_end # None /\ Val(new_end) <= Val(new_start)
        THEN HTTPException(400, "end_utc must be greater than start_utc")
        ELSE IF new_end = None /\ get_running_entry(table, entry.user_id, Some(entry.id)) # None
        THEN HTTPException(409, "A timer is already running")
        ELSE IF new_end # None
                /\ has_overlap(table, entry.user_id, new_start, new_end, Some(entry.id))
        THEN HTTPException(409, "Overlapping time entry for user")
        ELSE Ok

\* entry_access without the comparison of entry.user_id with user.id
entry_access_NoOwner(table, cookie, header, csrf, method, entry_id) ==
    LET auth == _verify_and_get_user_from_access(cookie)
        entry == get_entry(table, entry_id)
    IN  IF auth # Ok THEN auth
        ELSE IF entry = None
        THEN HTTPException(404, "TimeEntry not found")
        ELSE IF ~require_csrf(method, header, csrf)
        THEN HTTPException(403, "CSRF validation failed")
        ELSE Ok

\* The checks that PATCH and DELETE /{entry_id} make before they look at a body
entry_access(table, cookie, header, csrf, method, entry_id) ==
    LET auth == _verify_and_get_user_from_access(cookie)
        entry == get_entry(table, entry_id)
    IN  IF auth # Ok THEN auth
        ELSE IF entry = None
        THEN HTTPException(404, "TimeEntry not found")
        ELSE IF ~require_csrf(method, header, csrf)
        THEN HTTPException(403, "CSRF validation failed")
        ELSE IF Val(entry).user_id # Val(cookie).sub
        THEN HTTPException(403, "Forbidden")
        ELSE Ok

\* api_update_entry up to the call of crud update_entry
update_begin(table, cookie, header, csrf, entry_id, data) ==
    LET access == entry_access(table, cookie, header, csrf, "PATCH", entry_id)
    IN  IF access # Ok THEN access
        ELSE update_validate(table, Val(get_entry(table, entry_id)), data)

\* The response of PATCH /api/time-entries/{entry_id} when no other request intervenes
update_response(cookie, header, csrf, entry_id, data) ==
    LET begin == update_begin(entries, cookie, header, csrf, entry_id, data)
    IN  IF begin # Ok THEN begin
        ELSE IF update_entry(Val(get_entry(entries, entry_id)), data).raises # ""
        THEN InternalServerError
        ELSE Ok

\* api_update_entry, lines 178-184: the projects table after the best-effort
\* upsert, which is made `if payload.project_code`
patch_upsert(table, user_id, data) ==
    IF "project_code" \in DOMAIN data /\ ~Falsy(data.project_code)
    THEN upsert_by_code(table, user_id, [code |-> Val(data.project_code), name |-> None])
    ELSE table

\* PATCH /api/time-entries/{entry_id} with body `data`: the guards and the
\* validation, the best-effort upsert of the project (its own commit), then crud
\* update_entry
api_update_entry(cookie, header, csrf, entry_id, data) ==
    /\ IF update_begin(entries, cookie, header, csrf, entry_id, data) # Ok
       THEN UNCHANGED <<entries, projects>>
       ELSE LET entry == Val(get_entry(entries, entry_id))
                made == update_entry(entry, data)
            IN  /\ projects' = patch_upsert(projects, entry.user_id, data)
                /\ IF made.raises # ""
                   THEN UNCHANGED entries
                   ELSE entries' = (entries \ {entry}) \cup {made.value}
    /\ UNCHANGED <<authVars, nextEntry, reqs>>

\* DELETE /api/time-entries/{entry_id}
api_delete_entry(cookie, header, csrf, entry_id) ==
    /\ IF entry_access(entries, cookie, header, csrf, "DELETE", entry_id) # Ok
       THEN UNCHANGED entries
       ELSE entries' = entries \ {Val(get_entry(entries, entry_id))}
    /\ UNCHANGED <<authVars, nextEntry, projects, reqs>>

\* The response of GET /api/time-entries/{entry_id}
get_response(cookie, entry_id) ==
    LET auth == _verify_and_get_user_from_access(cookie)
        entry == get_entry(entries, entry_id)
    IN  IF auth # Ok THEN auth
        ELSE IF entry = None
        THEN HTTPException(404, "TimeEntry not found")
        ELSE IF Val(entry).user_id # Val(cookie).sub
        THEN HTTPException(403, "Forbidden")
        ELSE Ok

\* GET /api/time-entries/{entry_id}: it writes nothing
api_get_entry(cookie, entry_id) ==
    /\ get_response(cookie, entry_id).status \in {200, 401, 403, 404}
    /\ UNCHANGED vars

\* A row with end_utc NULL that the table holds when the handlers run. The column
\* is nullable so that the table can hold running entries and seconds is NOT NULL;
\* no handler writes such a row (crud create_entry and update_entry raise on a
\* null end), so the row is written to the table directly.
insert_running(user_id, start_utc) ==
    /\ nextEntry <= MaxEntries
    /\ user_id \in DOMAIN users
    /\ \A e \in entries : e.user_id = user_id => e.end_utc # None
    /\ entries' = entries \cup {[id |-> nextEntry, user_id |-> user_id,
                                 start_utc |-> Some(start_utc), end_utc |-> None,
                                 seconds |-> 0]}
    /\ nextEntry' = nextEntry + 1
    /\ UNCHANGED <<authVars, projects, reqs>>

EntryIds == 1 .. MaxEntries

-----------------------------------------------------------------------------
\* routes/projects.py

ProjectCreates == [code : Codes, name : Names]

ProjectUpdates == UNION {[D -> Names] : D \in SUBSET {"name"}}

\* The access guard and the CSRF guard of the two mutating project routes
project_access(cookie, header, csrf, method) ==
    LET auth == _verify_and_get_user_from_access(cookie)
    IN  IF auth # Ok THEN auth
        ELSE IF ~require_csrf(method, header, csrf)
        THEN HTTPException(403, "CSRF validation failed")
        ELSE Ok

\* POST /api/projects/upsert
api_upsert_project(cookie, header, csrf, payload) ==
    /\ IF project_access(cookie, header, csrf, "POST") # Ok
       THEN UNCHANGED projects
       ELSE projects' = upsert_by_code(projects, Val(cookie).sub, payload)
    /\ UNCHANGED <<authVars, entries, nextEntry, reqs>>

\* The response of PATCH /api/projects/{code}
update_project_response(cookie, header, csrf, code) ==
    LET access == project_access(cookie, header, csrf, "PATCH")
    IN  IF access # Ok THEN access
        ELSE IF get_by_code(projects, Val(cookie).sub, code) = None
        THEN HTTPException(404, "Project not found")
        ELSE Ok

\* PATCH /api/projects/{code}
api_update_project(cookie, header, csrf, code, data) ==
    /\ IF update_project_response(cookie, header, csrf, code) # Ok
       THEN UNCHANGED projects
       ELSE projects' = update_project(projects,
                            Val(get_by_code(projects, Val(cookie).sub, code)), data)
    /\ UNCHANGED <<authVars, entries, nextEntry, reqs>>

\* The response of POST /logout
logout_response(header, csrf) ==
    IF ~require_csrf("POST", header, csrf)
    THEN HTTPException(403, "CSRF validation failed")
    ELSE Ok

-----------------------------------------------------------------------------
\* Requests in flight

IdleReq ==
    [pc |-> "idle", op |-> "none", cookie |-> None, row |-> None, args |-> None, out |-> Ok]

Done(op, cookie, args, out) ==
    [pc |-> "done", op |-> op, cookie |-> cookie, row |-> None, args |-> args, out |-> out]

Init ==
    /\ users = <<>>
    /\ issued = {}
    /\ expired = {}
    /\ seq = 1
    /\ rotated = {}
    /\ preRevoke = {}
    /\ entries = {}
    /\ nextEntry = 1
    /\ projects = {}
    /\ reqs = [r \in Reqs |-> IdleReq]

\* Requests handled one at a time
Next ==
    \/ \E e \in Emails, p \in Passwords : register(e, p)
    \/ \E e \in Emails, p \in Passwords : login(e, p)
    \/ \E c \in Cookies : refresh(c)
    \/ \E c \in Cookies : revoke_all(c)
    \/ \E c \in Cookies, h \in CsrfInputs, k \in CsrfCookies : logout(c, h, k)
    \/ \E c \in Cookies : me(c)
    \/ \E t \in issued : Expire(t)

Spec == Init /\ [][Next]_vars

\* The time-entry API, requests handled one at a time. A request that the access
\* and CSRF guards refuse is answered the same whatever its body.
NextEntries ==
    \/ \E e \in Emails : register(e, "password-1")
    \/ \E c \in Cookies, h \in CsrfInputs, k \in CsrfCookies :
           IF create_access(c, h, k) # Ok
           THEN UNCHANGED vars
           ELSE \E p \in CreatePayloads : api_create_entry(c, h, k, p)
    \/ \E c \in Cookies, h \in CsrfInputs, k \in CsrfCookies, i \in EntryIds :
           IF entry_access(entries, c, h, k, "PATCH", i) # Ok
           THEN UNCHANGED vars
           ELSE \E d \in UpdatePayloads : api_update_entry(c, h, k, i, d)
    \/ \E c \in Cookies, h \in CsrfInputs, k \in CsrfCookies, i \in EntryIds :
           api_delete_entry(c, h, k, i)
    \/ \E c \in Cookies, i \in EntryIds : api_get_entry(c, i)

SpecEntries == Init /\ [][NextEntries]_vars

\* The time-entry API on a table that also holds running entries. Every request
\* carries a CSRF header that matches its CSRF cookie; a request that the guards
\* or the validation refuse writes nothing and is left out.
NextRunning ==
    \/ \E e \in Emails : register(e, "password-1")
    \/ \E u \in DOMAIN users, t \in Times : insert_running(u, t)
    \/ \E c \in Cookies :
           /\ create_access(c, Some("csrf-1"), Some("csrf-1")) = Ok
           /\ \E p \in CreatePayloads :
                  /\ create_validate(entries, Val(c).sub, p) = Ok
                  /\ api_create_entry(c, Some("csrf-1"), Some("csrf-1"), p)
    \/ \E c \in Cookies, i \in EntryIds :
           /\ entry_access(entries, c, Some("csrf-1"), Some("csrf-1"), "PATCH", i) = Ok
           /\ \E d \in UpdatePayloads :
                  /\ update_validate(entries, Val(get_entry(entries, i)), d) = Ok
                  /\ api_update_entry(c, Some("csrf-1"), Some("csrf-1"), i, d)
    \/ \E c \in Cookies, i \in EntryIds :
           /\ entry_access(entries, c, Some("csrf-1"), Some("csrf-1"), "DELETE", i) = Ok
           /\ api_delete_entry(c, Some("csrf-1"), Some("csrf-1"), i)

SpecRunning == Init /\ [][NextRunning]_vars

\* Creates whose body carries a user_id of the client's choosing, and deletes.
\* Every request carries a CSRF header that matches its CSRF cookie; a request
\* that the guards or the validation refuse writes nothing and is left out.
NextOwner ==
    \/ \E e \in Emails : register(e, "password-1")
    \/ \E c \in Cookies :
           /\ create_access(c, Some("csrf-1"), Some("csrf-1")) = Ok
           /\ \E p \in CreatePayloadsOwner :
                  /\ create_validate(entries, Val(c).sub, p) = Ok
                  /\ api_create_entry(c, Some("csrf-1"), Some("csrf-1"), p)
    \/ \E c \in Cookies, i \in EntryIds :
           /\ entry_access(entries, c, Some("csrf-1"), Some("csrf-1"), "DELETE", i) = Ok
           /\ api_delete_entry(c, Some("csrf-1"), Some("csrf-1"), i)

SpecOwner == Init /\ [][NextOwner]_vars

\* The auth routes on accounts that an operator disables and enables
NextAccounts ==
    \/ \E e \in Emails : register(e, "password-1")
    \/ \E e \in Emails, p \in Passwords : login(e, p)
    \/ \E c \in Cookies : refresh(c)
    \/ \E c \in Cookies : revoke_all(c)
    \/ \E c \in Cookies : me(c)
    \/ \E u \in DOMAIN users, flag \in BOOLEAN : set_is_active(u, flag)
    \/ \E t \in issued : Expire(t)

SpecAccounts == Init /\ [][NextAccounts]_vars

\* The routes that call require_csrf, for one user, with every header and cookie
\* value a client can send, the empty ones included
NextCsrf ==
    \/ register("a@x.io", "password-1")
    \/ \E c \in Cookies, h \in CsrfHeaders, k \in CsrfCookieValues : logout(c, h, k)
    \/ \E c \in Cookies, h \in CsrfHeaders, k \in CsrfCookieValues :
           IF create_access(c, h, k) # Ok
           THEN UNCHANGED vars
           ELSE \E p \in CreatePayloads : api_create_entry(c, h, k, p)
    \/ \E c \in Cookies, h \in CsrfHeaders, k \in CsrfCookieValues, i \in EntryIds :
           IF entry_access(entries, c, h, k, "PATCH", i) # Ok
           THEN UNCHANGED vars
           ELSE \E d \in UpdatePayloads : api_update_entry(c, h, k, i, d)
    \/ \E c \in Cookies, h \in CsrfHeaders, k \in CsrfCookieValues, i \in EntryIds :
           api_delete_entry(c, h, k, i)
    \/ \E c \in Cookies, h \in CsrfHeaders, k \in CsrfCookieValues :
           IF project_access(c, h, k, "POST") # Ok
           THEN UNCHANGED vars
           ELSE \E p \in ProjectCreates : api_upsert_project(c, h, k, p)
    \/ \E c \in Cookies, h \in CsrfHeaders, k \in CsrfCookieValues :
           IF project_access(c, h, k, "PATCH") # Ok
           THEN UNCHANGED vars
           ELSE \E code \in Codes, d \in ProjectUpdates : api_update_project(c, h, k, code, d)

SpecCsrf == Init /\ [][NextCsrf]_vars

-----------------------------------------------------------------------------
\* Concurrent /refresh requests. A request reads the users row and makes its
\* checks on it (refresh_read), then mints the new pair from the row it holds and
\* commits the UPDATE of the two refresh columns (refresh_commit). No lock and no
\* version column orders two requests of one user.

\* POST /refresh, lines 112-128: the SELECT and the checks
refresh_read(r, cookie) ==
    /\ reqs[r].pc = "idle"
    /\ LET out == refresh_check(cookie, users) IN
       reqs' = [reqs EXCEPT ![r] =
           IF out # Ok
           THEN Done("refresh", cookie, None, out)
           ELSE [pc |-> "rotate", op |-> "refresh", cookie |-> cookie,
                 row |-> Some(users[Val(cookie).sub]), args |-> None, out |-> Ok]]
    /\ UNCHANGED <<authVars, entries, nextEntry, projects>>

\* POST /refresh, lines 129-138: mint, UPDATE, commit, set the cookies
refresh_commit(r) ==
    /\ reqs[r].pc = "rotate"
    /\ issue_tokens(Val(reqs[r].row))
    /\ rotated' = rotated \cup {Val(reqs[r].cookie)}
    /\ reqs' = [reqs EXCEPT ![r] = Done("refresh", reqs[r].cookie, None, Ok)]
    /\ UNCHANGED <<expired, preRevoke, entries, nextEntry, projects>>

NextRefreshRace ==
    \/ \E e \in Emails, p \in Passwords : register(e, p)
    \/ \E r \in Reqs, c \in Cookies : refresh_read(r, c)
    \/ \E r \in Reqs : refresh_commit(r)
    \/ \E t \in issued : Expire(t)

SpecRefreshRace == Init /\ [][NextRefreshRace]_vars

-----------------------------------------------------------------------------
\* /revoke_all next to /login and /refresh requests in flight. A /login reads the
\* users row and checks the password (login_read), then mints the pair from the
\* row it holds and commits the UPDATE of the two refresh columns (login_commit);
\* a /refresh does the same (refresh_read, refresh_commit). A /revoke_all can
\* commit between the two.

\* POST /login, lines 95-97: the SELECT and the check
login_read(r, email, password) ==
    /\ reqs[r].pc = "idle"
    /\ LET out == login_check(email, password) IN
       reqs' = [reqs EXCEPT ![r] =
           IF out # Ok
           THEN Done("login", None, None, out)
           ELSE [pc |-> "store", op |-> "login", cookie |-> None,
                 row |-> _user_by_email(email), args |-> None, out |-> Ok]]
    /\ UNCHANGED <<authVars, entries, nextEntry, projects>>

\* POST /login, lines 98-106: mint, UPDATE, commit, set the cookies
login_commit(r) ==
    /\ reqs[r].pc = "store"
    /\ issue_tokens(Val(reqs[r].row))
    /\ reqs' = [reqs EXCEPT ![r] = Done("login", None, None, Ok)]
    /\ UNCHANGED <<expired, rotated, preRevoke, entries, nextEntry, projects>>

NextRevokeRace ==
    \/ register("a@x.io", "password-1")
    \/ \E r \in Reqs, p \in Passwords : login_read(r, "a@x.io", p)
    \/ \E r \in Reqs : login_commit(r)
    \/ \E r \in Reqs, c \in Cookies : refresh_read(r, c)
    \/ \E r \in Reqs : refresh_commit(r)
    \/ \E c \in Cookies : revoke_all(c)

SpecRevokeRace == Init /\ [][NextRevokeRace]_vars

-----------------------------------------------------------------------------
\* Concurrent time-entry requests. A request makes its guards and its queries on
\* the committed rows (create_read, update_read); crud create_entry / update_entry
\* then writes and commits (create_commit, update_commit). Nothing serializes two
\* requests of one user between the two.

\* api_create_entry, lines 86-115: a request that passes them goes on to the insert
create_read(r, cookie, header, csrf, payload) ==
    /\ reqs[r].pc = "idle"
    /\ create_begin(entries, cookie, header, csrf, payload) = Ok
    /\ reqs' = [reqs EXCEPT ![r] =
           [pc |-> "insert", op |-> "create", cookie |-> cookie, row |-> None,
            args |-> payload2(payload, Val(cookie).sub), out |-> Ok]]
    /\ UNCHANGED <<authVars, entries, nextEntry, projects>>

\* api_create_entry, lines 106-117: the upsert of the project, then crud
\* create_entry
create_commit(r) ==
    /\ reqs[r].pc = "insert"
    /\ projects' = upsert_by_code(projects, reqs[r].args.user_id, ProjectOfEntry)
    /\ LET made == create_entry(reqs[r].args) IN
       IF made.raises # ""
       THEN /\ reqs' = [reqs EXCEPT ![r] =
                    Done("create", reqs[r].cookie, reqs[r].args, InternalServerError)]
            /\ UNCHANGED <<entries, nextEntry>>
       ELSE /\ entries' = entries \cup {made.value}
            /\ nextEntry' = nextEntry + 1
            /\ reqs' = [reqs EXCEPT ![r] = Done("create", reqs[r].cookie, reqs[r].args, Created)]
    /\ UNCHANGED authVars

\* api_update_entry, lines 144-189: a request that passes them goes on to the update
update_read(r, cookie, header, csrf, entry_id, data) ==
    /\ reqs[r].pc = "idle"
    /\ update_begin(entries, cookie, header, csrf, entry_id, data) = Ok
    /\ reqs' = [reqs EXCEPT ![r] =
           [pc |-> "update", op |-> "update", cookie |-> cookie,
            row |-> get_entry(entries, entry_id), args |-> data, out |-> Ok]]
    /\ UNCHANGED <<authVars, entries, nextEntry, projects>>

\* api_create_entry, lines 106-117, when upsert_by_code raises: the except clause
\* rolls the session back and logs, then crud create_entry runs. This variant
\* answers the request with the error instead.
create_commit_rollback_Abort(r) ==
    /\ reqs[r].pc = "insert"
    /\ reqs' = [reqs EXCEPT ![r] =
           Done("create", reqs[r].cookie, reqs[r].args, InternalServerError)]
    /\ UNCHANGED <<authVars, entries, nextEntry, projects>>

\* api_create_entry, lines 106-117, when upsert_by_code raises: the except clause
\* rolls the session back (no project row is written) and logs, then crud
\* create_entry runs
create_commit_rollback(r) ==
    /\ reqs[r].pc = "insert"
    /\ LET made == create_entry(reqs[r].args) IN
       IF made.raises # ""
       THEN /\ reqs' = [reqs EXCEPT ![r] =
                    Done("create", reqs[r].cookie, reqs[r].args, InternalServerError)]
            /\ UNCHANGED <<entries, nextEntry>>
       ELSE /\ entries' = entries \cup {made.value}
            /\ nextEntry' = nextEntry + 1
            /\ reqs' = [reqs EXCEPT ![r] = Done("create", reqs[r].cookie, reqs[r].args, Created)]
    /\ UNCHANGED <<authVars, projects>>

\* api_update_entry, lines 178-190: the best-effort upsert of the project, then
\* crud update_entry on the row object the request loaded. The UPDATE sets the
\* columns whose value the request changed.
update_commit(r) ==
    /\ reqs[r].pc = "update"
    /\ projects' = patch_upsert(projects, Val(reqs[r].row).user_id, reqs[r].args)
    /\ LET loaded == Val(reqs[r].row)
           made == update_entry(loaded, reqs[r].args)
           stored == Val(get_entry(entries, loaded.id))
       IN  IF made.raises # ""
           THEN /\ reqs' = [reqs EXCEPT ![r] =
                        Done("update", reqs[r].cookie, reqs[r].args, InternalServerError)]
                /\ UNCHANGED entries
           ELSE /\ entries' = (entries \ {stored}) \cup
                       {[k \in DOMAIN stored |->
                            IF made.value[k] # loaded[k] THEN made.value[k] ELSE stored[k]]}
                /\ reqs' = [reqs EXCEPT ![r] = Done("update", reqs[r].cookie, reqs[r].args, Ok)]
    /\ UNCHANGED <<authVars, nextEntry>>

\* api_update_entry, lines 178-190, when upsert_by_code raises: the except clause
\* rolls the session back and logs, then crud update_entry runs. The rollback
\* expires the row object, so update_entry works on the row as it is stored.
update_commit_rollback(r) ==
    /\ reqs[r].pc = "update"
    /\ "project_code" \in DOMAIN reqs[r].args /\ ~Falsy(reqs[r].args.project_code)
    /\ LET stored == Val(get_entry(entries, Val(reqs[r].row).id))
           made == update_entry(stored, reqs[r].args)
       IN  IF made.raises # ""
           THEN /\ reqs' = [reqs EXCEPT ![r] =
                        Done("update", reqs[r].cookie, reqs[r].args, InternalServerError)]
                /\ UNCHANGED entries
           ELSE /\ entries' = (entries \ {stored}) \cup {made.value}
                /\ reqs' = [reqs EXCEPT ![r] = Done("update", reqs[r].cookie, reqs[r].args, Ok)]
    /\ UNCHANGED <<authVars, nextEntry, projects>>

AllIdle == \A r \in Reqs : reqs[r].pc = "idle"

\* One user's requests: some handled alone, then two that overlap in time
NextEntryRace ==
    \/ AllIdle /\ register("a@x.io", "password-1")
    \/ \E c \in Cookies, h \in CsrfInputs, k \in CsrfCookies :
           /\ AllIdle
           /\ create_access(c, h, k) = Ok
           /\ \E p \in CreatePayloads : api_create_entry(c, h, k, p)
    \/ \E r \in Reqs, c \in Cookies, h \in CsrfInputs, k \in CsrfCookies :
           /\ create_access(c, h, k) = Ok
           /\ \E p \in CreatePayloads : create_read(r, c, h, k, p)
    \/ \E r \in Reqs : create_commit(r)
    \/ \E r \in Reqs, c \in Cookies, h \in CsrfInputs, k \in CsrfCookies, i \in EntryIds :
           /\ entry_access(entries, c, h, k, "PATCH", i) = Ok
           /\ \E d \in UpdatePayloads : update_read(r, c, h, k, i, d)
    \/ \E r \in Reqs : update_commit(r)

SpecEntryRace == Init /\ [][NextEntryRace]_vars

-----------------------------------------------------------------------------
\* The best-effort upsert of the project, which can raise (a lost connection, a
\* violated unique index): one user's requests, handled one after the other, the
\* upsert of each either committing or raising.

NoneInFlight == \A r \in Reqs : reqs[r].pc \in {"idle", "done"}

NextUpsert ==
    \/ AllIdle /\ register("a@x.io", "password-1")
    \/ \E r \in Reqs, c \in Cookies, h \in CsrfInputs, k \in CsrfCookies :
           /\ NoneInFlight
           /\ create_access(c, h, k) = Ok
           /\ \E p \in CreatePayloads : create_read(r, c, h, k, p)
    \/ \E r \in Reqs : create_commit(r)
    \/ \E r \in Reqs : create_commit_rollback(r)
    \/ \E r \in Reqs, c \in Cookies, h \in CsrfInputs, k \in CsrfCookies, i \in EntryIds :
           /\ NoneInFlight
           /\ entry_access(entries, c, h, k, "PATCH", i) = Ok
           /\ \E d \in UpdatePayloadsProject : update_read(r, c, h, k, i, d)
    \/ \E r \in Reqs : update_commit(r)
    \/ \E r \in Reqs : update_commit_rollback(r)

SpecUpsert == Init /\ [][NextUpsert]_vars

-----------------------------------------------------------------------------
\* _compute_seconds called on its own: every call holds two datetimes, in either
\* order, and is answered with what the function returns or raises.

CallOf(start_utc, end_utc) ==
    [pc |-> "call", op |-> "_compute_seconds", cookie |-> None, row |-> None,
     args |-> [start_utc |-> Some(start_utc), end_utc |-> Some(end_utc)], out |-> Ok]

InitDuration ==
    /\ users = <<>>
    /\ issued = {}
    /\ expired = {}
    /\ seq = 1
    /\ rotated = {}
    /\ preRevoke = {}
    /\ entries = {}
    /\ nextEntry = 1
    /\ projects = {}
    /\ reqs \in [Reqs -> {CallOf(s, e) : s \in Times, e \in Times}]

call_compute_seconds(r) ==
    /\ reqs[r].pc = "call"
    /\ reqs' = [reqs EXCEPT ![r] =
           Done("_compute_seconds", None, reqs[r].args,
                _compute_seconds(reqs[r].args.start_utc, reqs[r].args.end_utc))]
    /\ UNCHANGED <<authVars, entries, nextEntry, projects>>

NextDuration == \E r \in Reqs : call_compute_seconds(r)

SpecDuration == InitDuration /\ [][NextDuration]_vars

-----------------------------------------------------------------------------
\* The error kinds of the specification, as the responses of the code

InvalidToken == HTTPException(401, "Invalid token")

AccessVersionRevoked == HTTPException(401, "Token version mismatch (revoked)")

RefreshVersionRevoked == HTTPException(401, "Refresh revoked by version bump")

RefreshInvalidated == HTTPException(401, "Refresh invalidated")

RefreshReused == HTTPException(401, "Refresh revoked")

\* What /refresh would answer to token t now
RefreshOutcome(t) == refresh_check(Some(t), users)

\* What the access guard would answer to token t now
AccessOutcome(t) == _verify_and_get_user_from_access(Some(t))

RefreshTokensOf(u) == {t \in issued : t.type = "refresh" /\ t.sub = u}

OverlapConflict == HTTPException(409, "Overlapping time entry for user")

RunningConflict == HTTPException(409, "A timer is already running")

MissingRefreshToken == HTTPException(401, "Missing refresh token")

MissingAccessToken == HTTPException(401, "Missing access token")

WrongTokenType == HTTPException(401, "Invalid token type")

UserDisabledOrNotFound == HTTPException(401, "User disabled or not found")

\* A token that jwt.decode accepts: signed by the server and not past its exp
Decodes(t) == t \in issued /\ t \notin expired

CsrfMismatch == HTTPException(403, "CSRF validation failed")

MutatingMethods == {"POST", "PUT", "PATCH", "DELETE"}

EmailTaken == HTTPException(409, "Email already registered")

InvalidCredentials == HTTPException(401, "Invalid credentials")

InvalidInterval == HTTPException(400, "end_utc must be greater than start_utc")

\* An interval whose end is given and is not after its start
EndNotAfterStart(start_utc, end_utc) ==
    start_utc # None /\ end_utc # None /\ Val(end_utc) <= Val(start_utc)

\* The (start, end) of stored entry `entry` after the merge of PATCH body `data`
MergedStart(entry, data) == Get(data, "start_utc", entry.start_utc)

MergedEnd(entry, data) == Get(data, "end_utc", entry.end_utc)

\* Two stored entries of one user, both ended, whose [start, end) intervals meet
Overlaps(a, b) ==
    /\ a.id # b.id /\ a.user_id = b.user_id
    /\ a.end_utc # None /\ b.end_utc # None
    /\ Val(a.start_utc) < Val(b.end_utc) /\ Val(b.start_utc) < Val(a.end_utc)

RunningOf(u) == {e \in entries : e.user_id = u /\ e.end_utc = None}

EntriesOf(u) == {e \in entries : e.user_id = u}

\* A request in flight whose body asks for an entry with null end
LeavesRunning(q) == "end_utc" \in DOMAIN q.args /\ q.args.end_utc = None

-----------------------------------------------------------------------------
\* C1: two concurrent /refresh requests that present the same valid refresh
\* token never both succeed.
C1_ConcurrentRefreshOneWinner ==
    \A r1, r2 \in Reqs :
        (/\ r1 # r2
         /\ reqs[r1].pc = "done" /\ reqs[r2].pc = "done"
         /\ reqs[r1].cookie = reqs[r2].cookie)
        => ~(reqs[r1].out = Ok /\ reqs[r2].out = Ok)

\* C2: whatever the interleaving of two create or update requests of one user that
\* carry closed intervals, the store never holds two ended entries of that user
\* whose [start, end) intervals overlap, and two creates whose intervals overlap
\* are never both answered 201.
C2_ConcurrentNoOverlap ==
    /\ \A a, b \in entries : ~Overlaps(a, b)
    /\ \A r1, r2 \in Reqs :
           (/\ r1 # r2
            /\ reqs[r1].pc = "done" /\ reqs[r2].pc = "done"
            /\ reqs[r1].op = "create" /\ reqs[r2].op = "create"
            /\ reqs[r1].args.user_id = reqs[r2].args.user_id
            /\ reqs[r1].args.end_utc # None /\ reqs[r2].args.end_utc # None
            /\ Val(reqs[r1].args.start_utc) < Val(reqs[r2].args.end_utc)
            /\ Val(reqs[r2].args.start_utc) < Val(reqs[r1].args.end_utc))
           => ~(reqs[r1].out = Created /\ reqs[r2].out = Created)

\* C3: whatever the interleaving of two requests of one user that each ask for an
\* entry with null end, the store never holds two entries of that user with null
\* end, and at least one of the two is answered "A timer is already running".
C3_ConcurrentSingleRunning ==
    /\ \A u \in DOMAIN users : Cardinality(RunningOf(u)) <= 1
    /\ \A r1, r2 \in Reqs :
           (/\ r1 # r2
            /\ reqs[r1].pc = "done" /\ reqs[r2].pc = "done"
            /\ Val(reqs[r1].cookie).sub = Val(reqs[r2].cookie).sub
            /\ LeavesRunning(reqs[r1]) /\ LeavesRunning(reqs[r2]))
           => (reqs[r1].out = RunningConflict \/ reqs[r2].out = RunningConflict)

\* C4: a successful /refresh with R makes R fail with "Refresh revoked" and makes
\* the refresh token it issued acceptable; a token that /refresh has consumed is
\* never accepted again.
C4_RotationStep ==
    \A c \in Cookies :
        (refresh_check(c, users) = Ok /\ refresh(c)) =>
            /\ refresh_check(c, users)' = RefreshReused
            /\ \A t \in issued' \ issued :
                   t.type = "refresh" => RefreshOutcome(t)' = Ok

C4_RefreshTokenSingleUse ==
    /\ [][C4_RotationStep]_vars
    /\ [](\A t \in rotated : RefreshOutcome(t) # Ok)

\* C4 witness: R was consumed, and R' that its refresh issued was consumed too
C4_Witness ==
    \E t1, t2 \in rotated :
        /\ t1.sub = t2.sub /\ t1.iat < t2.iat
        /\ \E t3 \in issued : t3.type = "refresh" /\ t3.iat > t2.iat /\ RefreshOutcome(t3) = Ok

C6_Original ==
    \A t \in preRevoke : t.type = "refresh" => RefreshOutcome(t) = RefreshVersionRevoked

\* C6 amended: such a token is always refused by /refresh: "Invalid token" once
\* expired, else "Refresh invalidated" while the user has no stored refresh hash
\* and jti, else "Refresh revoked by version bump".
C6_RevokedRefreshRefused ==
    \A t \in preRevoke :
        t.type = "refresh" =>
            RefreshOutcome(t) =
                IF t \in expired THEN InvalidToken
                ELSE IF users[t.sub].refresh_jti = None THEN RefreshInvalidated
                ELSE RefreshVersionRevoked

\* C6 witness: a later login stored a new hash and jti, and an unexpired refresh
\* token from before the /revoke_all meets the version comparison
C6_Witness ==
    \E t \in preRevoke :
        /\ t.type = "refresh" /\ t \notin expired
        /\ users[t.sub].refresh_jti # None
        /\ RefreshOutcome(t) = RefreshVersionRevoked

\* C7: of all the refresh tokens ever issued for a user, /refresh would accept at
\* most one.
C7_AtMostOneValidRefresh ==
    \A u \in DOMAIN users :
        Cardinality({t \in RefreshTokensOf(u) : RefreshOutcome(t) = Ok}) <= 1

\* C7 witness: a user with three refresh tokens issued, one of them acceptable
C7_Witness ==
    \E u \in DOMAIN users :
        /\ Cardinality(RefreshTokensOf(u)) >= 3
        /\ Cardinality({t \in RefreshTokensOf(u) : RefreshOutcome(t) = Ok}) = 1

\* C8: the stored refresh hash and the stored jti of a user are both set or both
\* null.
C8_HashAndJtiTogether ==
    \A u \in DOMAIN users :
        (users[u].refresh_token_hash = None) <=> (users[u].refresh_jti = None)

\* C8 witness: one user with both set, one whose /logout or /revoke_all cleared both
C8_Witness ==
    \E u, v \in DOMAIN users :
        /\ users[u].refresh_token_hash # None /\ users[u].refresh_jti # None
        /\ users[v].refresh_token_hash = None /\ users[v].refresh_jti = None

\* C9: after any sequence of create, update and delete requests handled one at a
\* time, no user has two ended entries whose [start, end) intervals overlap.
C9_NoOverlappingEntries ==
    \A u \in DOMAIN users : \A a, b \in EntriesOf(u) : ~Overlaps(a, b)

\* C9 witness: a user with two ended entries that touch (one ends where the other
\* starts), for whom a create that covers both would be answered the overlap 409
C9_Witness ==
    \E u \in DOMAIN users : \E a, b \in EntriesOf(u) :
        /\ a.end_utc = b.start_utc
        /\ \E p \in CreatePayloads : create_validate(entries, u, p) = OverlapConflict

\* C10: after any sequence of create, update and delete requests handled one at a
\* time, each user has at most one entry with null end.
C10_AtMostOneRunning ==
    \A u \in DOMAIN users : Cardinality(RunningOf(u)) <= 1

\* C10 witness: a user with two stored entries for whom a create with end omitted
\* passes the running-timer check and gets as far as create_entry
C10_Witness ==
    \E u \in DOMAIN users :
        /\ Cardinality(EntriesOf(u)) >= 2
        /\ \E p \in CreatePayloads :
               /\ p.end_utc = None
               /\ create_validate(entries, u, p) = Ok
               /\ create_entry(p @@ [user_id |-> u]).raises = "TypeError"

\* C11: every stored entry with non-null end has end > start; a create, or an
\* update whose merged (start, end) has end <= start, that gets past the access,
\* CSRF and ownership guards is answered 400 "end_utc must be greater than
\* start_utc", and the step that handles it leaves the store unchanged.
C11_StoredIntervals ==
    \A e \in entries : e.end_utc # None => Val(e.end_utc) > Val(e.start_utc)

C11_Responses ==
    \A c \in Cookies, h \in CsrfInputs, k \in CsrfCookies :
        /\ create_access(c, h, k) = Ok =>
               \A p \in CreatePayloads :
                   EndNotAfterStart(p.start_utc, p.end_utc) =>
                       create_response(c, h, k, p) = InvalidInterval
        /\ \A i \in EntryIds :
               entry_access(entries, c, h, k, "PATCH", i) = Ok =>
                   \A d \in UpdatePayloads :
                       LET entry == Val(get_entry(entries, i)) IN
                       EndNotAfterStart(MergedStart(entry, d), MergedEnd(entry, d)) =>
                           update_response(c, h, k, i, d) = InvalidInterval

C11_Step ==
    entries' # entries =>
        \A c \in Cookies, h \in CsrfInputs, k \in CsrfCookies :
            /\ create_access(c, h, k) = Ok =>
                   \A p \in CreatePayloads :
                       EndNotAfterStart(p.start_utc, p.end_utc) => ~api_create_entry(c, h, k, p)
            /\ \A i \in EntryIds :
                   entry_access(entries, c, h, k, "PATCH", i) = Ok =>
                       \A d \in UpdatePayloads :
                           EndNotAfterStart(MergedStart(Val(get_entry(entries, i)), d),
                                            MergedEnd(Val(get_entry(entries, i)), d))
                               => ~api_update_entry(c, h, k, i, d)

C11_InvalidIntervalRefused ==
    /\ [](C11_StoredIntervals /\ C11_Responses)
    /\ [][C11_Step]_vars

\* C11 witness: a stored entry whose owner's PATCH that moves start_utc up to the
\* stored end would be answered the 400
C11_Witness ==
    \E e \in entries, c \in Cookies, h \in CsrfInputs, k \in CsrfCookies :
        /\ entry_access(entries, c, h, k, "PATCH", e.id) = Ok
        /\ update_response(c, h, k, e.id, [x \in {"start_utc"} |-> e.end_utc]) = InvalidInterval
        /\ Cardinality(entries) >= 2

\* C12: /login is answered 401 "Invalid credentials" whenever no user has the
\* email, the user is inactive, or the password does not match the stored hash;
\* a /login for an inactive user issues no tokens.
C12_LoginStep ==
    \A e \in Emails, p \in Passwords :
        (/\ _user_by_email(e) # None
         /\ ~Val(_user_by_email(e)).is_active
         /\ login(e, p))
            => (issued' = issued /\ users' = users)

C12_LoginRefusesInactive ==
    /\ [](\A e \in Emails, p \in Passwords :
              (\/ _user_by_email(e) = None
               \/ ~Val(_user_by_email(e)).is_active
               \/ ~verify_password(p, Val(_user_by_email(e)).password_hash))
                  => login_check(e, p) = InvalidCredentials)
    /\ [][C12_LoginStep]_vars

\* C13 as stated: after a successful /login of a user, every refresh token issued
\* for that user before it is answered "Refresh revoked" by /refresh, and the
\* refresh token the login issued is accepted.
C13_OriginalStep ==
    \A e \in Emails, p \in Passwords :
        (login_check(e, p) = Ok /\ login(e, p)) =>
            /\ \A t \in RefreshTokensOf(Val(_user_by_email(e)).id) :
                   RefreshOutcome(t)' = RefreshReused
            /\ \A t \in issued' \ issued : t.type = "refresh" => RefreshOutcome(t)' = Ok

C13_Original == [][C13_OriginalStep]_vars

\* C13 amended: after a successful /login of a user, every refresh token issued
\* for that user before it is refused by /refresh: "Invalid token" if it has
\* expired, else "Refresh revoked by version bump" if it was issued under an
\* earlier token_version, else "Refresh revoked"; the refresh token the login
\* issued is accepted.
C13_LoginStep ==
    \A e \in Emails, p \in Passwords :
        (login_check(e, p) = Ok /\ login(e, p)) =>
            LET user == Val(_user_by_email(e)) IN
            /\ \A t \in RefreshTokensOf(user.id) :
                   RefreshOutcome(t)' =
                       IF t \in expired THEN InvalidToken
                       ELSE IF t.ver # user.token_version THEN RefreshVersionRevoked
                       ELSE RefreshReused
            /\ \A t \in issued' \ issued : t.type = "refresh" => RefreshOutcome(t)' = Ok

C13_LoginRotatesRefresh == [][C13_LoginStep]_vars

\* C13 witness: no /refresh has succeeded, and a user holds an older unexpired
\* refresh token answered "Refresh revoked" beside the accepted one of a later login
C13_Witness ==
    /\ rotated = {}
    /\ \E u \in DOMAIN users : \E t1, t2 \in RefreshTokensOf(u) :
           /\ t1.iat < t2.iat
           /\ RefreshOutcome(t1) = RefreshReused
           /\ RefreshOutcome(t2) = Ok

\* C14: /refresh answers with the first of these that applies, in this order: no
\* cookie, a token that does not decode, a type other than refresh, a user that is
\* absent or has no stored hash or jti, a version claim other than the stored
\* version, a jti other than the stored jti or a token that does not match the
\* stored hash; it succeeds, and only then writes, when none applies.
C14_Expected(c) ==
    IF c = None THEN MissingRefreshToken
    ELSE IF ~Decodes(Val(c)) THEN InvalidToken
    ELSE IF Val(c).type # "refresh" THEN WrongTokenType
    ELSE IF \/ _user_by_id(Val(c).sub) = None
            \/ Val(_user_by_id(Val(c).sub)).refresh_token_hash = None
            \/ Val(_user_by_id(Val(c).sub)).refresh_jti = None
    THEN RefreshInvalidated
    ELSE IF Val(c).ver # Val(_user_by_id(Val(c).sub)).token_version
    THEN RefreshVersionRevoked
    ELSE IF \/ Val(c).jti # Val(_user_by_id(Val(c).sub)).refresh_jti
            \/ Val(_user_by_id(Val(c).sub)).refresh_token_hash # Some(pwd_hash(Val(c)))
    THEN RefreshReused
    ELSE Ok

C14_Step ==
    \A c \in Cookies :
        refresh(c) => IF C14_Expected(c) = Ok
                      THEN users' # users /\ issued' # issued
                      ELSE users' = users /\ issued' = issued

C14_RefreshCheckOrder ==
    /\ [](\A c \in Cookies : refresh_check(c, users) = C14_Expected(c))
    /\ [][C14_Step]_vars

\* C14 witness: one state in which a refresh token from before a /revoke_all meets
\* the version check, a later superseded one meets the jti check, the latest is
\* accepted, and an access token meets the type check
C14_Witness ==
    \E a, b, c, d \in issued :
        /\ RefreshOutcome(a) = RefreshVersionRevoked
        /\ RefreshOutcome(b) = RefreshReused
        /\ RefreshOutcome(c) = Ok
        /\ RefreshOutcome(d) = WrongTokenType
        /\ a.sub = b.sub /\ b.sub = c.sub

\* C15: the access guard returns a user exactly when the cookie holds a signed,
\* unexpired token of type access whose subject is an existing active user and
\* whose version claim is that user's stored token_version; a refresh token in
\* the access cookie is answered "Invalid token type", and a disabled user's
\* otherwise valid token "User disabled or not found".
C15_AccessGuard ==
    /\ \A c \in Cookies :
           (_verify_and_get_user_from_access(c) = Ok) <=>
               /\ c # None
               /\ Decodes(Val(c))
               /\ Val(c).type = "access"
               /\ Val(c).sub \in DOMAIN users
               /\ users[Val(c).sub].is_active
               /\ Val(c).ver = users[Val(c).sub].token_version
    /\ \A t \in issued :
           (Decodes(t) /\ t.type = "refresh") => AccessOutcome(t) = WrongTokenType
    /\ \A t \in issued :
           (/\ Decodes(t) /\ t.type = "access"
            /\ ~users[t.sub].is_active
            /\ t.ver = users[t.sub].token_version)
               => AccessOutcome(t) = UserDisabledOrNotFound

\* C15 witness: a disabled user with an unexpired access token of the stored
\* version, beside a user whose access token passes the guard and whose refresh
\* token is unexpired
C15_Witness ==
    \E t, a, r \in issued :
        /\ Decodes(t) /\ t.type = "access"
        /\ ~users[t.sub].is_active /\ t.ver = users[t.sub].token_version
        /\ AccessOutcome(a) = Ok
        /\ Decodes(r) /\ r.type = "refresh" /\ r.sub = a.sub

\* C16: a /logout with matching CSRF values and an access token that the guard
\* accepts clears the stored refresh hash and jti of the token's user, and the
\* refresh token of that session is then answered "Refresh invalidated".
C16_LogoutStep ==
    \A c \in Cookies, h \in CsrfInputs, k \in CsrfCookies :
        (/\ users' # users
         /\ UNCHANGED <<issued, expired, seq, rotated, preRevoke>>
         /\ require_csrf("POST", h, k)
         /\ _verify_and_get_user_from_access(c) = Ok
         /\ logout(c, h, k))
            => /\ users'[Val(c).sub].refresh_token_hash = None
               /\ users'[Val(c).sub].refresh_jti = None
               /\ \A t \in RefreshTokensOf(Val(c).sub) :
                      t.iat = Val(c).iat => RefreshOutcome(t)' = RefreshInvalidated

C16_LogoutInvalidatesRefresh == [][C16_LogoutStep]_vars

\* C16 witness: a user whose token_version was never bumped and whose stored hash
\* and jti are null, with an access token the guard accepts and the refresh
\* token minted with it answered "Refresh invalidated"
C16_Witness ==
    \E a, r \in issued :
        /\ a.sub = r.sub /\ a.iat = r.iat
        /\ a.type = "access" /\ r.type = "refresh"
        /\ users[a.sub].token_version = str(0)
        /\ users[a.sub].refresh_jti = None
        /\ AccessOutcome(a) = Ok
        /\ RefreshOutcome(r) = RefreshInvalidated

\* C17: /logout changes no user's token_version, and every access token that the
\* guard accepted before a /logout is accepted after it.
C17_LogoutStep ==
    (/\ users' # users
     /\ UNCHANGED <<issued, expired, seq, rotated, preRevoke>>
     /\ \E c \in Cookies, h \in CsrfInputs, k \in CsrfCookies : logout(c, h, k))
        => /\ \A u \in DOMAIN users : users'[u].token_version = users[u].token_version
           /\ \A t \in issued : AccessOutcome(t) = Ok => AccessOutcome(t)' = Ok

C17_LogoutKeepsVersion == [][C17_LogoutStep]_vars

\* C17 witness: a user whose stored hash and jti a /logout cleared, with two
\* access tokens (two sessions) that the guard still accepts
C17_Witness ==
    \E a, b \in issued :
        /\ a.sub = b.sub /\ a.iat < b.iat
        /\ users[a.sub].token_version = str(0)
        /\ users[a.sub].refresh_token_hash = None
        /\ AccessOutcome(a) = Ok /\ AccessOutcome(b) = Ok

C18_Guard ==
    \A m \in Methods, h \in CsrfHeaders, k \in CsrfCookieValues :
        require_csrf(m, h, k) <=>
            (m \notin MutatingMethods \/ (~Falsy(h) /\ ~Falsy(k) /\ h = k))

C18_Responses ==
    \A h \in CsrfHeaders, k \in CsrfCookieValues :
        /\ ~require_csrf("POST", h, k) =>
               /\ logout_response(h, k) = CsrfMismatch
               /\ \A c \in Cookies :
                      _verify_and_get_user_from_access(c) = Ok =>
                          /\ \A p \in CreatePayloads : create_response(c, h, k, p) = CsrfMismatch
                          /\ project_access(c, h, k, "POST") = CsrfMismatch
        /\ ~require_csrf("PATCH", h, k) =>
               \A c \in Cookies :
                   _verify_and_get_user_from_access(c) = Ok =>
                       /\ \A code \in Codes : update_project_response(c, h, k, code) = CsrfMismatch
                       /\ \A e \in entries, d \in UpdatePayloads :
                              update_response(c, h, k, e.id, d) = CsrfMismatch
        /\ ~require_csrf("DELETE", h, k) =>
               \A c \in Cookies, e \in entries :
                   _verify_and_get_user_from_access(c) = Ok =>
                       entry_access(entries, c, h, k, "DELETE", e.id) = CsrfMismatch

C18_Step ==
    (users' # users \/ entries' # entries \/ projects' # projects) =>
        \A c \in Cookies, h \in CsrfHeaders, k \in CsrfCookieValues :
            /\ ~require_csrf("POST", h, k) =>
                   /\ ~logout(c, h, k)
                   /\ \A p \in CreatePayloads : ~api_create_entry(c, h, k, p)
                   /\ \A p \in ProjectCreates : ~api_upsert_project(c, h, k, p)
            /\ ~require_csrf("PATCH", h, k) =>
                   /\ \A i \in EntryIds, d \in UpdatePayloads : ~api_update_entry(c, h, k, i, d)
                   /\ \A code \in Codes, d \in ProjectUpdates :
                          ~api_update_project(c, h, k, code, d)
            /\ ~require_csrf("DELETE", h, k) =>
                   \A i \in EntryIds : ~api_delete_entry(c, h, k, i)

C19_RegisterStep ==
    (users' # users \/ issued' # issued) =>
        \A e \in Emails, p \in Passwords :
            _user_by_email(e) # None => ~register(e, p)

C19_EmailTaken ==
    /\ [](\A e \in Emails : _user_by_email(e) # None => register_check(e) = EmailTaken)
    /\ [][C19_RegisterStep]_vars

\* C19 witness: both emails are taken, one of them by a user who has since logged
\* in again
C19_Witness ==
    /\ \A e \in Emails : register_check(e) = EmailTaken
    /\ \E u \in DOMAIN users : Cardinality(RefreshTokensOf(u)) >= 2

\* C20: a user's token_version never decreases; it changes only in a /revoke_all
\* that the access guard lets through, which raises it by exactly 1 and in the
\* same commit nulls the stored refresh hash and jti; /register, /login, /refresh
\* and /logout leave it as it is.
C20_VersionStep ==
    \A u \in DOMAIN users :
        LET old == int(users[u].token_version)
            new == int(users'[u].token_version)
        IN  /\ new >= old
            /\ new # old =>
                   /\ new = old + 1
                   /\ users'[u].refresh_token_hash = None
                   /\ users'[u].refresh_jti = None
                   /\ \E c \in Cookies :
                          /\ _verify_and_get_user_from_access(c) = Ok
                          /\ Val(c).sub = u
                          /\ revoke_all(c)

C20_RevokeStep ==
    \A c \in Cookies :
        (_verify_and_get_user_from_access(c) = Ok /\ revoke_all(c)) =>
            users'[Val(c).sub].token_version = str(int(users[Val(c).sub].token_version) + 1)

C20_OtherRoutesStep ==
    (\E u \in DOMAIN users : users'[u].token_version # users[u].token_version) =>
        /\ \A e \in Emails, p \in Passwords : ~register(e, p) /\ ~login(e, p)
        /\ \A c \in Cookies : ~refresh(c)
        /\ \A c \in Cookies, h \in CsrfInputs, k \in CsrfCookies : ~logout(c, h, k)

C20_VersionMonotonic == [][C20_VersionStep /\ C20_RevokeStep /\ C20_OtherRoutesStep]_vars

\* C20 witness: a user whose token_version two /revoke_all calls raised to "2",
\* with the stored hash and jti null
C20_Witness ==
    \E u \in DOMAIN users :
        /\ users[u].token_version = str(2)
        /\ users[u].refresh_token_hash = None /\ users[u].refresh_jti = None

-----------------------------------------------------------------------------
\* C25: a create with end omitted, by a user who has no running entry, succeeds
\* and persists a running entry (end null) whose duration is unset or zero: the
\* request is answered 201, and the step that handles it adds to the store an
\* entry of that user with null end and seconds = 0.
C25_Response ==
    \A c \in Cookies, p \in CreatePayloads :
        (/\ create_access(c, Some("csrf-1"), Some("csrf-1")) = Ok
         /\ p.end_utc = None
         /\ RunningOf(Val(c).sub) = {})
        => create_response(c, Some("csrf-1"), Some("csrf-1"), p) = Created

C25_Step ==
    \A c \in Cookies, p \in CreatePayloads :
        (/\ create_access(c, Some("csrf-1"), Some("csrf-1")) = Ok
         /\ p.end_utc = None
         /\ RunningOf(Val(c).sub) = {}
         /\ api_create_entry(c, Some("csrf-1"), Some("csrf-1"), p))
        => \E e \in entries' \ entries :
               /\ e.user_id = Val(c).sub /\ e.start_utc = p.start_utc
               /\ e.end_utc = None /\ e.seconds = 0

C25_RunningCreatePersists == [](C25_Response) /\ [][C25_Step]_vars

-----------------------------------------------------------------------------
\* C24: update applies a patch only-if-present. A field absent from the patch
\* keeps its stored value (an absent end keeps the stored end, null included);
\* a patch whose end is explicitly null, on an ended entry of a user who has no
\* running entry, is answered 200 and leaves that entry stored with null end.
C24_AbsentStep ==
    entries' # entries =>
        \A c \in Cookies, h \in CsrfInputs, k \in CsrfCookies, i \in EntryIds :
            entry_access(entries, c, h, k, "PATCH", i) = Ok =>
                \A d \in UpdatePayloads :
                    api_update_entry(c, h, k, i, d) =>
                        LET old == Val(get_entry(entries, i))
                            new == Val(get_entry(entries', i))
                        IN  /\ get_entry(entries', i) # None
                            /\ "start_utc" \notin DOMAIN d => new.start_utc = old.start_utc
                            /\ "end_utc" \notin DOMAIN d => new.end_utc = old.end_utc

C24_NullEndResponse ==
    \A c \in Cookies, i \in EntryIds :
        (/\ entry_access(entries, c, Some("csrf-1"), Some("csrf-1"), "PATCH", i) = Ok
         /\ Val(get_entry(entries, i)).end_utc # None
         /\ RunningOf(Val(c).sub) = {})
        => update_response(c, Some("csrf-1"), Some("csrf-1"), i, [end_utc |-> None]) = Ok

C24_NullEndStep ==
    \A c \in Cookies, i \in EntryIds :
        (/\ entry_access(entries, c, Some("csrf-1"), Some("csrf-1"), "PATCH", i) = Ok
         /\ Val(get_entry(entries, i)).end_utc # None
         /\ RunningOf(Val(c).sub) = {}
         /\ api_update_entry(c, Some("csrf-1"), Some("csrf-1"), i, [end_utc |-> None]))
        => /\ get_entry(entries', i) # None
           /\ Val(get_entry(entries', i)).end_utc = None

C24_OnlyIfPresent == [](C24_NullEndResponse) /\ [][C24_AbsentStep /\ C24_NullEndStep]_vars

\* The first half of C24 alone
C24_AbsentKeeps == [][C24_AbsentStep]_vars

-----------------------------------------------------------------------------
\* C21: a create with end omitted is answered RunningConflict if and only if the
\* same user already has an entry with null end; a running entry of another user
\* never causes that answer.
C21_RunningConflictIff ==
    \A c \in Cookies, p \in CreatePayloads :
        (/\ create_access(c, Some("csrf-1"), Some("csrf-1")) = Ok
         /\ p.end_utc = None)
        => (create_response(c, Some("csrf-1"), Some("csrf-1"), p) = RunningConflict
                <=> RunningOf(Val(c).sub) # {})

\* One user has a running entry and is answered RunningConflict, another user
\* has none and is not
C21_Witness ==
    \E c1, c2 \in Cookies, p \in CreatePayloads :
        /\ p.end_utc = None
        /\ create_access(c1, Some("csrf-1"), Some("csrf-1")) = Ok
        /\ create_access(c2, Some("csrf-1"), Some("csrf-1")) = Ok
        /\ RunningOf(Val(c1).sub) # {}
        /\ RunningOf(Val(c2).sub) = {}
        /\ create_response(c1, Some("csrf-1"), Some("csrf-1"), p) = RunningConflict
        /\ create_response(c2, Some("csrf-1"), Some("csrf-1"), p) # RunningConflict

-----------------------------------------------------------------------------
-----------------------------------------------------------------------------
\* C23: a patch of a running entry with an end t > start that overlaps no other
\* ended entry of the user is answered 200, stores end = t and seconds = t - start
\* and leaves the user with no running entry; after it a create without end by
\* the same user succeeds, and a create of a closed interval that overlaps
\* [start, t) is answered OverlapConflict.
C23_Response ==
    \A c \in Cookies, i \in EntryIds, t \in Times :
        (/\ entry_access(entries, c, Some("csrf-1"), Some("csrf-1"), "PATCH", i) = Ok
         /\ Val(get_entry(entries, i)).end_utc = None
         /\ t > Val(Val(get_entry(entries, i)).start_utc)
         /\ ~has_overlap(entries, Val(c).sub, Val(get_entry(entries, i)).start_utc,
                         Some(t), Some(i)))
        => update_response(c, Some("csrf-1"), Some("csrf-1"), i, [end_utc |-> Some(t)]) = Ok

\* The stored row and the user's running status after the patch
C23_PatchStep ==
    entries' # entries =>
        \A c \in Cookies, i \in EntryIds, t \in Times :
            (/\ entry_access(entries, c, Some("csrf-1"), Some("csrf-1"), "PATCH", i) = Ok
             /\ Val(get_entry(entries, i)).end_utc = None
             /\ api_update_entry(c, Some("csrf-1"), Some("csrf-1"), i, [end_utc |-> Some(t)]))
            => LET old == Val(get_entry(entries, i))
                   new == Val(get_entry(entries', i))
               IN  /\ get_entry(entries', i) # None
                   /\ new.start_utc = old.start_utc
                   /\ new.end_utc = Some(t)
                   /\ new.seconds = t - Val(old.start_utc)
                   /\ RunningOf(Val(c).sub)' = {}
                   /\ \A p \in CreatePayloads :
                          (/\ p.end_utc # None /\ Val(p.end_utc) > Val(p.start_utc)
                           /\ Val(p.start_utc) < t /\ Val(old.start_utc) < Val(p.end_utc))
                          => create_response(c, Some("csrf-1"), Some("csrf-1"), p)'
                                 = OverlapConflict

\* The create without end after the patch
C23_AfterStep ==
    entries' # entries =>
        \A c \in Cookies, i \in EntryIds, t \in Times :
            (/\ entry_access(entries, c, Some("csrf-1"), Some("csrf-1"), "PATCH", i) = Ok
             /\ Val(get_entry(entries, i)).end_utc = None
             /\ api_update_entry(c, Some("csrf-1"), Some("csrf-1"), i, [end_utc |-> Some(t)]))
            => \A p \in CreatePayloads :
                   p.end_utc = None =>
                       create_response(c, Some("csrf-1"), Some("csrf-1"), p)' = Created

C23_PatchCloses == [](C23_Response) /\ [][C23_PatchStep]_vars

-----------------------------------------------------------------------------
\* C26: has_overlap is half-open and symmetric. For ended intervals A and B of
\* one user, B is rejected against stored A exactly when A.end > B.start and
\* A.start < B.end, which is when A is rejected against stored B; intervals that
\* only touch at an endpoint do not overlap.
C26_HalfOpenSymmetric ==
    \A A \in entries : A.end_utc # None =>
        \A s \in Times, e \in Times : s < e =>
            LET B == [id |-> 0, user_id |-> A.user_id, start_utc |-> Some(s),
                      end_utc |-> Some(e), seconds |-> e - s]
                BvsA == has_overlap({A}, A.user_id, B.start_utc, B.end_utc, None)
                AvsB == has_overlap({B}, A.user_id, A.start_utc, A.end_utc, None)
            IN  /\ BvsA <=> (Val(A.end_utc) > s /\ Val(A.start_utc) < e)
                /\ BvsA <=> AvsB
                /\ (Val(A.end_utc) = s \/ e = Val(A.start_utc)) => ~BvsA /\ ~AvsB

\* Two stored entries of one user that touch at an endpoint
C26_Witness ==
    \E A \in entries, B \in entries :
        /\ A.user_id = B.user_id /\ A.id # B.id
        /\ A.end_utc # None /\ A.end_utc = B.start_utc /\ B.end_utc # None
        /\ ~has_overlap({A}, A.user_id, B.start_utc, B.end_utc, None)

-----------------------------------------------------------------------------
\* C27: _compute_seconds(start, end) is max(0, end - start) in whole seconds for
\* all datetimes start and end; it is 0 whenever end < start and never negative.
C27_ComputeSeconds ==
    \A r \in Reqs :
        reqs[r].pc = "done" =>
            LET start == Val(reqs[r].args.start_utc)
                end == Val(reqs[r].args.end_utc)
                out == reqs[r].out
            IN  /\ out.raises = ""
                /\ out.value = (IF end - start > 0 THEN end - start ELSE 0)
                /\ end < start => out.value = 0
                /\ out.value >= 0

\* A call with end before start, answered 0, and one with end after start
C27_Witness ==
    \E r1, r2 \in Reqs :
        /\ reqs[r1].pc = "done" /\ reqs[r2].pc = "done"
        /\ Val(reqs[r1].args.end_utc) < Val(reqs[r1].args.start_utc)
        /\ reqs[r1].out.value = 0
        /\ Val(reqs[r2].args.end_utc) > Val(reqs[r2].args.start_utc)
        /\ reqs[r2].out.value > 0

-----------------------------------------------------------------------------
\* C28: when the best-effort upsert of the project raises during a create or an
\* update, the transaction is rolled back (no project row is written) and the
\* request goes on: the entry is created or updated exactly as crud create_entry
\* or update_entry makes it, and the request is answered as that call answers,
\* with 201 or 200 when it returns.
C28_CreateStep ==
    \A r \in Reqs :
        (reqs[r].pc = "insert" /\ reqs'[r].pc = "done") =>
            LET made == create_entry(reqs[r].args) IN
            /\ create_commit_rollback(r) => projects' = projects
            /\ IF made.raises = ""
               THEN entries' = entries \cup {made.value} /\ reqs'[r].out = Created
               ELSE entries' = entries /\ reqs'[r].out = InternalServerError

C28_UpdateStep ==
    \A r \in Reqs :
        (reqs[r].pc = "update" /\ reqs'[r].pc = "done") =>
            LET stored == Val(get_entry(entries, Val(reqs[r].row).id))
                made == update_entry(stored, reqs[r].args)
            IN  /\ update_commit_rollback(r) => projects' = projects
                /\ IF made.raises = ""
                   THEN /\ entries' = (entries \ {stored}) \cup {made.value}
                        /\ reqs'[r].out = Ok
                   ELSE entries' = entries /\ reqs'[r].out = InternalServerError

C28_UpsertFailureSwallowed == [][C28_CreateStep /\ C28_UpdateStep]_vars

\* A create answered 201 and a patch with a project_code answered 200, their
\* entry stored, and no project row written: both upserts raised
C28_Witness ==
    \E r1, r2 \in Reqs :
        /\ reqs[r1].pc = "done" /\ reqs[r1].op = "create" /\ reqs[r1].out = Created
        /\ reqs[r2].pc = "done" /\ reqs[r2].op = "update" /\ reqs[r2].out = Ok
        /\ "project_code" \in DOMAIN reqs[r2].args
        /\ entries # {}
        /\ projects = {}

-----------------------------------------------------------------------------
\* C29: a get, update or delete of an existing entry by an authenticated user
\* who is not its owner is refused and leaves the entry unchanged and present: a
\* get is answered Forbidden; an update or delete is answered Forbidden when its
\* CSRF header matches its CSRF cookie and CsrfMismatch when it does not, since
\* the CSRF guard runs before the ownership check. No request of one user
\* changes or removes an entry of another.
Forbidden == HTTPException(403, "Forbidden")

\* Cookie c is accepted by the access guard and entry i is stored for another user
C29_NotOwner(c, i) ==
    /\ _verify_and_get_user_from_access(c) = Ok
    /\ get_entry(entries, i) # None
    /\ Val(get_entry(entries, i)).user_id # Val(c).sub

\* As first stated: each of the three is answered Forbidden, whatever its CSRF header
C29_Original ==
    \A c \in Cookies, i \in EntryIds :
        C29_NotOwner(c, i) =>
            /\ get_response(c, i) = Forbidden
            /\ \A h \in CsrfInputs, k \in CsrfCookies :
                   /\ entry_access(entries, c, h, k, "DELETE", i) = Forbidden
                   /\ \A d \in UpdatePayloads :
                          update_response(c, h, k, i, d) = Forbidden

C29_Responses ==
    \A c \in Cookies, i \in EntryIds :
        C29_NotOwner(c, i) =>
            /\ get_response(c, i) = Forbidden
            /\ \A h \in CsrfInputs, k \in CsrfCookies :
                   /\ entry_access(entries, c, h, k, "DELETE", i)
                          = (IF require_csrf("DELETE", h, k) THEN Forbidden ELSE CsrfMismatch)
                   /\ \A d \in UpdatePayloads :
                          update_response(c, h, k, i, d)
                              = (IF require_csrf("PATCH", h, k) THEN Forbidden ELSE CsrfMismatch)

\* Cookie c is accepted by the access guard, and the step changes or removes a
\* stored entry of a user other than the one of c
C29_TouchesOthers(c) ==
    /\ _verify_and_get_user_from_access(c) = Ok
    /\ \E e \in entries \ entries' : e.user_id # Val(c).sub

\* A step that changes or removes an entry is no request of another user's cookie
C29_Step ==
    (entries \ entries') # {} =>
        \A c \in Cookies :
            C29_TouchesOthers(c) =>
                \A h \in CsrfInputs, k \in CsrfCookies :
                    /\ create_access(c, h, k) = Ok =>
                           \A p \in CreatePayloads : ~api_create_entry(c, h, k, p)
                    /\ \A i \in EntryIds :
                           /\ entry_access(entries, c, h, k, "PATCH", i) = Ok =>
                                  \A d \in UpdatePayloads : ~api_update_entry(c, h, k, i, d)
                           /\ ~api_delete_entry(c, h, k, i)

C29_CrossUserRefused == [](C29_Responses) /\ [][C29_Step]_vars

\* A user with a valid cookie and a matching CSRF header is answered Forbidden on
\* the get, the update and the delete of another user's entry
C29_Witness ==
    \E c \in Cookies, i \in EntryIds :
        /\ C29_NotOwner(c, i)
        /\ get_response(c, i) = Forbidden
        /\ update_response(c, Some("csrf-1"), Some("csrf-1"), i, [end_utc |-> Some(MaxTime)])
               = Forbidden
        /\ entry_access(entries, c, Some("csrf-1"), Some("csrf-1"), "DELETE", i) = Forbidden

-----------------------------------------------------------------------------
\* C30: after any sequence of creates and updates, the stored duration of every
\* ended entry is max(0, end - start) of the start and end it is stored with; an
\* update whose patch holds neither start nor end leaves the stored duration as
\* it is.
C30_StoredSeconds ==
    \A e \in entries :
        e.end_utc # None => e.seconds = Max(0, Val(e.end_utc) - Val(e.start_utc))

C30_PatchWithoutTimes ==
    \A e \in entries, d \in UpdatePayloadsProject :
        ("start_utc" \notin DOMAIN d /\ "end_utc" \notin DOMAIN d)
        => /\ update_entry(e, d).raises = ""
           /\ update_entry(e, d).value.seconds = e.seconds

C30_DurationMatches == C30_StoredSeconds /\ C30_PatchWithoutTimes

\* Two ended entries of one user with different durations, each the length of
\* its interval
C30_Witness ==
    \E a \in entries, b \in entries :
        /\ a.user_id = b.user_id /\ a.end_utc # None /\ b.end_utc # None
        /\ a.seconds = 1 /\ b.seconds = 2
        /\ Val(b.end_utc) - Val(b.start_utc) = 2

-----------------------------------------------------------------------------
\* C31: update leaves the entry's own id out of the overlap and running checks.
\* A patch of an ended entry to a window inside its stored window is not
\* answered OverlapConflict, and a patch of the user's only running entry that
\* leaves its end absent or null is not answered RunningConflict.
C31_OwnWindow ==
    \A c \in Cookies, i \in EntryIds :
        entry_access(entries, c, Some("csrf-1"), Some("csrf-1"), "PATCH", i) = Ok =>
            LET entry == Val(get_entry(entries, i)) IN
            entry.end_utc # None =>
                \A d \in UpdatePayloads :
                    LET s == MergedStart(entry, d)
                        e == MergedEnd(entry, d)
                    IN  (/\ s # None /\ e # None /\ Val(s) < Val(e)
                         /\ Val(entry.start_utc) <= Val(s) /\ Val(e) <= Val(entry.end_utc))
                        => update_response(c, Some("csrf-1"), Some("csrf-1"), i, d)
                               # OverlapConflict

C31_OwnRunning ==
    \A c \in Cookies, i \in EntryIds :
        entry_access(entries, c, Some("csrf-1"), Some("csrf-1"), "PATCH", i) = Ok =>
            LET entry == Val(get_entry(entries, i)) IN
            (entry.end_utc = None /\ RunningOf(entry.user_id) = {entry}) =>
                \A d \in UpdatePayloads :
                    MergedEnd(entry, d) = None
                    => update_response(c, Some("csrf-1"), Some("csrf-1"), i, d)
                           # RunningConflict

C31_UpdateExcludesSelf == C31_OwnWindow /\ C31_OwnRunning

\* A user with a running entry and an ended one: the ended one patched to a
\* shorter window inside its own is answered 200, and the running one patched
\* with a new start is not answered RunningConflict
C31_Witness ==
    \E c \in Cookies, i \in EntryIds, j \in EntryIds :
        /\ entry_access(entries, c, Some("csrf-1"), Some("csrf-1"), "PATCH", i) = Ok
        /\ entry_access(entries, c, Some("csrf-1"), Some("csrf-1"), "PATCH", j) = Ok
        /\ Val(get_entry(entries, i)).end_utc # None
        /\ Val(Val(get_entry(entries, i)).end_utc)
               - Val(Val(get_entry(entries, i)).start_utc) >= 2
        /\ update_response(c, Some("csrf-1"), Some("csrf-1"), i,
               [start_utc |-> Some(Val(Val(get_entry(entries, i)).start_utc) + 1)]) = Ok
        /\ Val(get_entry(entries, j)).end_utc = None
        /\ update_response(c, Some("csrf-1"), Some("csrf-1"), j, [start_utc |-> Some(0)])
               # RunningConflict

-----------------------------------------------------------------------------
\* C32: a logout whose CSRF header matches its CSRF cookie is answered 200 also
\* when the access cookie is missing, undecodable, expired or version-revoked,
\* and it then leaves the users table as it is: the stored refresh hash, jti and
\* token_version are unchanged and /refresh answers every token as before.
C32_Response ==
    \A c \in Cookies, h \in CsrfInputs, k \in CsrfCookies :
        (require_csrf("POST", h, k) /\ _verify_and_get_user_from_access(c) # Ok)
        => logout_response(h, k) = Ok

\* No step that changes the users table is such a logout
C32_Step ==
    (users' # users /\ UNCHANGED <<issued, expired, seq, rotated, preRevoke>>) =>
        \A c \in Cookies, h \in CsrfInputs, k \in CsrfCookies :
            (require_csrf("POST", h, k) /\ _verify_and_get_user_from_access(c) # Ok)
            => ~logout(c, h, k)

C32_LogoutWithoutAccess == [](C32_Response) /\ [][C32_Step]_vars

\* One user's access tokens, one expired and one version-revoked, next to a
\* refresh token of that user that /refresh accepts
C32_Witness ==
    \E a, b, r \in issued :
        /\ a.sub = b.sub /\ b.sub = r.sub
        /\ AccessOutcome(a) = InvalidToken /\ a.type = "access"
        /\ AccessOutcome(b) = AccessVersionRevoked
        /\ RefreshOutcome(r) = Ok
        /\ logout_response(Some("csrf-1"), Some("csrf-1")) = Ok

-----------------------------------------------------------------------------
\* C34: a /refresh that fails, for whatever reason (missing, undecodable, wrong
\* type, invalidated, version-revoked or reused token), writes nothing: the
\* stored refresh hash, jti and token_version of every user are unchanged and no
\* token is minted, so a refresh token that /refresh accepted before is accepted
\* after.
C34_Step ==
    (users' # users \/ issued' # issued) =>
        \A c \in Cookies : refresh_check(c, users) # Ok => ~refresh(c)

C34_FailedRefreshWritesNothing == [][C34_Step]_vars

\* A reused refresh token, an undecodable one and no token at all are refused
\* while the user's current refresh token is accepted
C34_Witness ==
    \E a, c \in issued :
        /\ a.sub = c.sub
        /\ RefreshOutcome(a) = RefreshReused
        /\ RefreshOutcome(c) = Ok
        /\ RefreshOutcome(BadToken) = InvalidToken
        /\ refresh_check(None, users) = MissingRefreshToken

-----------------------------------------------------------------------------
\* C35: /refresh never succeeds for a user whose is_active is false: no refresh
\* token of such a user is accepted, and no step mints a token for such a user
\* out of a refresh token.
C35_Response ==
    \A t \in issued :
        (t.sub \in DOMAIN users /\ ~users[t.sub].is_active) => RefreshOutcome(t) # Ok

C35_Step ==
    issued' # issued =>
        \A c \in Cookies :
            (/\ c # None /\ Val(c).sub \in DOMAIN users
             /\ ~users[Val(c).sub].is_active)
            => ~refresh(c)

C35_RefreshRefusesInactive == [](C35_Response) /\ [][C35_Step]_vars

-----------------------------------------------------------------------------
\* C36: an entry created through POST /api/time-entries/ is stored with user_id
\* equal to the authenticated user's id, whatever user_id the body carries, and
\* the running and overlap checks of the request read the authenticated user's
\* entries only: the answer is the same on a table that holds no one else's
\* entries, and the same whatever user_id the body carries.
C36_Step ==
    entries' # entries =>
        \A c \in Cookies :
            create_access(c, Some("csrf-1"), Some("csrf-1")) = Ok =>
                \A p \in CreatePayloadsOwner :
                    api_create_entry(c, Some("csrf-1"), Some("csrf-1"), p) =>
                        /\ \A e \in entries' \ entries :
                               /\ e.user_id = Val(c).sub
                               /\ e.start_utc = p.start_utc /\ e.end_utc = p.end_utc
                        /\ entries \subseteq entries'

C36_Checks ==
    \A c \in Cookies :
        create_access(c, Some("csrf-1"), Some("csrf-1")) = Ok =>
            \A p \in CreatePayloadsOwner :
                /\ create_validate(entries, Val(c).sub, p)
                       = create_validate(EntriesOf(Val(c).sub), Val(c).sub, p)
                /\ create_response(c, Some("csrf-1"), Some("csrf-1"), p)
                       = create_response(c, Some("csrf-1"), Some("csrf-1"),
                             [k \in {"start_utc", "end_utc"} |-> p[k]])

C36_OwnerIsAuthenticatedUser == [](C36_Checks) /\ [][C36_Step]_vars

\* Two users each own an entry over the same interval: neither create was held
\* to overlap the other user's entry, and each is stored under its creator
C36_Witness ==
    \E a \in entries, b \in entries :
        /\ a.user_id = 1 /\ b.user_id = 2
        /\ a.start_utc = b.start_utc /\ a.end_utc = b.end_utc

-----------------------------------------------------------------------------
\* C33: once a /revoke_all of a user has committed, no access or refresh token
\* that carries the version from before the increment is accepted, whatever
\* /login or /refresh requests of that user read the users row before the
\* /revoke_all committed and wrote their refresh hash and jti after it.
C33_CarriesRevokedVersion(t) ==
    \E p \in preRevoke : p.sub = t.sub /\ p.ver = t.ver

C33_RevokeAllUnderRace ==
    \A t \in issued :
        C33_CarriesRevokedVersion(t) => AccessOutcome(t) # Ok /\ RefreshOutcome(t) # Ok

\* A request that read the row before the /revoke_all has committed after it: its
\* refresh token carries the old version, its jti is the stored one, and /refresh
\* refuses it on the version
C33_Witness ==
    \E t \in issued \ preRevoke :
        /\ C33_CarriesRevokedVersion(t)
        /\ t.type = "refresh"
        /\ users[t.sub].refresh_jti = t.jti
        /\ RefreshOutcome(t) = RefreshVersionRevoked
        /\ \E r \in Reqs : reqs[r].pc = "done" /\ reqs[r].out = Ok

====
